---- MODULE Spec2Model ----
(***************************************************************************)
(* State-machine model of the Hub state engine.                            *)
(*                                                                         *)
(* Part 1, the link store: a last-write-wins CRDT store of LinkAdd and     *)
(* LinkRemove messages of one fid over an ordered key-value database       *)
(* (primary rows, the adds / removes indices, the by-target index), with   *)
(* the hub event log and the storage quota check.                          *)
(*                                                                         *)
(* Part 2, the engine: validation of incoming messages against the custody *)
(* event and the signer store, the validation worker, the dispatch to the  *)
(* stores, and the revoke-by-signer jobs that the hub event handlers       *)
(* enqueue.                                                                *)
(***************************************************************************)
EXTENDS Integers, Sequences, FiniteSets, Bags, TLC

(***************************************************************************)
(* Bounds of the model.                                                    *)
(***************************************************************************)
\* Timestamps of submitted messages range over 1..MaxTimestamp.
MaxTimestamp == 2
\* Hub event ids range over 1..MaxEventId: no operation commits once the
\* event log holds MaxEventId events.
MaxEventId == 4
\* pruneSizeLimit of the store built with an explicit size limit.
SizedLimit == 1
\* The engine hands out the validation job ids 0..MaxJobId-1: no message is
\* submitted once they are used up.
MaxJobId == 3
\* A call of the engine is made while fewer than MaxCalls calls, handlers
\* and jobs are in progress.
MaxCalls == 2

\* The engine is called at most MaxOverlaps times while a call, a handler
\* or a job is in progress.
MaxOverlaps == 1
\* The queue of jobs, the stores and the hex conversion of a signer of the
\* engine over several fids fail at most MaxFailures times in all.
MaxFailures == 1
\* Largest number of registrations of one handler.
MaxListeners == 2
\* Largest number of queued revoke jobs in the runs of start and stop.
MaxQueuedJobs == 2
\* Largest number of stop calls that wait for the validation worker to
\* terminate.
MaxStops == 2

(***************************************************************************)
(* Program constants.                                                      *)
(***************************************************************************)
\* getDefaultStoreLimit(StoreType.LINKS): the limit before the day it changes
\* and the limit from that day on. Days are written yyyymmdd.
DefaultLimit == 2500
LaterDefaultLimit == 2000
LimitChangeDay == 20240822
Days == {LimitChangeDay - 1, LimitChangeDay}
getDefaultStoreLimit(day) ==
    IF day < LimitChangeDay THEN DefaultLimit ELSE LaterDefaultLimit
\* The limits a store built without options can have.
DefaultLimits == { getDefaultStoreLimit(day) : day \in Days }
\* Storage units rented by the fid.
Units == 1

(***************************************************************************)
(* Messages.                                                               *)
(***************************************************************************)
TheFid == "fid"
LinkTypes == {"follow", "endorse"}
\* A link type of the maximum width, for the messages of the padding runs.
MaxWidthTypes == {"follower"}
AllLinkTypes == LinkTypes \cup MaxWidthTypes
Targets == {"target"}
\* A second target, for the messages of the pruning runs.
OtherTargets == {"other"}
AllTargets == Targets \cup OtherTargets
MessageTypes == {"LinkAdd", "LinkRemove"}
\* Two messages per (type, body, timestamp): a lower and a higher hash.
Variants == {0, 1}

LinkTypeIndex(linkType) ==
    IF linkType = "follow" THEN 0 ELSE IF linkType = "endorse" THEN 1 ELSE 2

\* The message hash is a digest of the message data: distinct messages have
\* distinct hashes. For one body and timestamp the four hashes interleave:
\* add(0) < remove(0) < add(1) < remove(1).
HashOf(type, linkType, timestamp, variant) ==
    8 * (timestamp - 1) + 4 * LinkTypeIndex(linkType) + 2 * variant
      + (IF type = "LinkAdd" THEN 1 ELSE 2)

\* The target is part of the message data, so of the digest.
TargetOffset(targetFid) == IF targetFid \in Targets THEN 0 ELSE 8 * MaxTimestamp

Message(type, linkType, targetFid, timestamp, variant) ==
    [fid |-> TheFid, type |-> type, linkType |-> linkType,
     targetFid |-> targetFid, timestamp |-> timestamp,
     hash |-> HashOf(type, linkType, timestamp, variant) + TargetOffset(targetFid)]

Messages ==
    { Message(t, lt, tg, ts, v) :
        t \in MessageTypes, lt \in LinkTypes, tg \in Targets,
        ts \in 1..MaxTimestamp, v \in Variants }

\* makeTsHash: timestamp followed by hash, compared bytewise.
makeTsHash(timestamp, hash) == <<timestamp, hash>>
TsHash(m) == makeTsHash(m.timestamp, m.hash)

\* bytesCompare on two tsHashes (or any two pairs of numbers).
bytesCompare(a, b) ==
    IF a[1] < b[1] THEN -1
    ELSE IF a[1] > b[1] THEN 1
    ELSE IF a[2] < b[2] THEN -1
    ELSE IF a[2] > b[2] THEN 1
    ELSE 0

\* The body key of a message: (fid, link type, target).
Keys == [fid : {TheFid}, linkType : AllLinkTypes, targetFid : AllTargets]
KeyOf(m) == [fid |-> m.fid, linkType |-> m.linkType, targetFid |-> m.targetFid]

NoRow == <<>>

VARIABLES
    primary,        \* primary rows: the stored messages, keyed by (fid, tsHash)
    linkAdds,       \* adds index: body key -> tsHash of the stored LinkAdd
    linkRemoves,    \* removes index: body key -> tsHash of the stored LinkRemove
    byTarget,       \* by-target index rows of the stored LinkAdds
    nextEventId,    \* id the event handler gives to the next hub event
    pruneSizeLimit, \* size limit the store was built with
    lastResult,     \* the last call: operation, argument, result, events emitted
    hubEvents,      \* the event log: id and type of the committed events, in
                    \* commit order (kept by the specification SpecEvents)
    legacyRows      \* adds / removes index rows under keys with the unpadded
                    \* link type, written before the key format was fixed

VARIABLES
    custodyEvent,               \* the id-registry event of the fid in the signer store
    nameRegistryEvent,          \* the name-registry event of the fname in the user
                                \* data store
    stored,                     \* the messages in the signer, cast and reaction stores
    revokeSignerQueue,          \* signers of the enqueued revoke-by-signer jobs
    validationWorkerJobId,      \* Engine._validationWorkerJobId
    validationWorkerPromiseMap, \* Engine._validationWorkerPromiseMap: <<id, message,
                                \* the call that waits>>
    mergeResult,                \* what the mergeMessage call that returned in the last
                                \* step returned, and for what message
    validationWorker,           \* whether Engine._validationWorker is set
    validating,                 \* the mergeMessage and validateOrRevokeMessage calls
                                \* inside validateMessage, before its step 6:
                                \* message, await, what was read
    validated,                  \* the calls whose validation has resolved: message,
                                \* result, job id
    handlers,                   \* the calls of the handlers of the store events
                                \* that await, as a bag: handler, signer, await
    revokeJob,                  \* the revokeMessagesBySigner call of the job
                                \* worker: signer, iterator, the message loaded
    pruning,                    \* the pruneMessages call that awaits: the place in
                                \* PruneOrder of the store that prunes next, or 0
    overlaps                    \* the calls made while a call, a handler or a job
                                \* was in progress

VARIABLES
    syncTrie,                   \* the sync trie: node prefix -> node hash
    nodes,                      \* FCNode.engine of each node: root, casts, reactions
    lastSync,                   \* the last syncUserWithPeer: who, from whom, what came
    hub                         \* the engine over several fids: custody events,
                                \* name-registry event, messages, jobs, last call

VARIABLES
    lifecycle,                  \* Engine.start / stop: listeners, workers, the
                                \* pending validation requests
    provider,                   \* RetryProvider: the request in progress
    signerSet                   \* SignerSet: vertices, edges, messages

storeVars == <<primary, linkAdds, linkRemoves, byTarget, nextEventId,
               pruneSizeLimit, lastResult, hubEvents, legacyRows>>

engineVars == <<custodyEvent, nameRegistryEvent, stored, revokeSignerQueue,
                validationWorkerJobId, validationWorkerPromiseMap, mergeResult,
                validationWorker, validating, validated, handlers, revokeJob,
                pruning, overlaps>>

otherVars == <<lifecycle, provider, signerSet>>

syncVars == <<syncTrie, nodes, lastSync, hub, otherVars>>

vars == <<storeVars, engineVars, syncVars>>

\* The database rows as one value.
RowsNow ==
    [primary |-> primary, linkAdds |-> linkAdds, linkRemoves |-> linkRemoves,
     byTarget |-> byTarget]

(***************************************************************************)
(* Reads.                                                                  *)
(***************************************************************************)
\* getMessage(db, fid, UserPostfix.LinkMessage, tsHash): the set holding the
\* primary row, empty when there is none (not_found).
getMessage(db, tsHash) == { m \in db.primary : TsHash(m) = tsHash }

getLinkAdd(db, key) ==
    IF db.linkAdds[key] = NoRow THEN {} ELSE getMessage(db, db.linkAdds[key])

getLinkRemove(db, key) ==
    IF db.linkRemoves[key] = NoRow THEN {} ELSE getMessage(db, db.linkRemoves[key])

getLinksByTarget(db, targetFid) ==
    UNION { getMessage(db, row.tsHash) :
              row \in { r \in db.byTarget : r.targetFid = targetFid } }

TargetRow(m) ==
    [targetFid |-> m.targetFid, fid |-> m.fid, tsHash |-> TsHash(m),
     linkType |-> m.linkType]

(***************************************************************************)
(* Storage cache: message count and earliest tsHash of the fid.            *)
(***************************************************************************)
MessageCount(db) == Cardinality(db.primary)

\* The set holding the earliest tsHash, empty when nothing is stored.
EarliestTsHash(db) ==
    { TsHash(m) : m \in { x \in db.primary :
        \A o \in db.primary : bytesCompare(TsHash(x), TsHash(o)) <= 0 } }

StoreLimit == pruneSizeLimit * Units

\* Variant: the quota rejects nothing.
isPrunable_Never(db, m) == FALSE

\* A message is prunable when the store is full and the timestamp of the
\* message is older than that of the earliest stored message.
isPrunable(db, m) ==
    /\ MessageCount(db) >= StoreLimit
    /\ \E e \in EarliestTsHash(db) : m.timestamp < e[1]

(***************************************************************************)
(* LinkStore.merge.                                                        *)
(***************************************************************************)
\* Variant: on equal timestamps the message that arrives last wins.
messageCompare_ArrivalWins(aType, aTsHash, bType, bTsHash) ==
    IF aTsHash[1] < bTsHash[1] THEN -1
    ELSE IF aTsHash[1] > bTsHash[1] THEN 1
    ELSE IF aTsHash = bTsHash THEN 0
    ELSE -1

\* Variant: on equal timestamps the higher hash wins whatever the types.
messageCompare_HashFirst(aType, aTsHash, bType, bTsHash) ==
    bytesCompare(aTsHash, bTsHash)

\* Variant: on equal timestamps an add wins over a remove.
messageCompare_AddWins(aType, aTsHash, bType, bTsHash) ==
    IF aTsHash[1] < bTsHash[1] THEN -1
    ELSE IF aTsHash[1] > bTsHash[1] THEN 1
    ELSE IF aType = "LinkRemove" /\ bType = "LinkAdd" THEN -1
    ELSE IF aType = "LinkAdd" /\ bType = "LinkRemove" THEN 1
    ELSE bytesCompare(aTsHash, bTsHash)

\* Variant: on equal timestamps and types the lower hash wins.
messageCompare_LowerHash(aType, aTsHash, bType, bTsHash) ==
    IF aTsHash[1] < bTsHash[1] THEN -1
    ELSE IF aTsHash[1] > bTsHash[1] THEN 1
    ELSE IF aType = "LinkRemove" /\ bType = "LinkAdd" THEN 1
    ELSE IF aType = "LinkAdd" /\ bType = "LinkRemove" THEN -1
    ELSE bytesCompare(bTsHash, aTsHash)

\* Order of two messages of one body key: the later timestamp wins; on equal
\* timestamps a remove wins over an add; on equal timestamps and types the
\* higher hash wins. Positive when a is ahead of b, 0 when they are the same.
messageCompare(aType, aTsHash, bType, bTsHash) ==
    IF aTsHash[1] < bTsHash[1] THEN -1
    ELSE IF aTsHash[1] > bTsHash[1] THEN 1
    ELSE IF aType = "LinkRemove" /\ bType = "LinkAdd" THEN 1
    ELSE IF aType = "LinkAdd" /\ bType = "LinkRemove" THEN -1
    ELSE bytesCompare(aTsHash, bTsHash)

\* Variant: the same message is not recognised as a duplicate.
CompareVerdict_NoDuplicate(compare) ==
    IF compare > 0 THEN "bad_request.conflict" ELSE "ok"

\* What the comparison of a stored row with the incoming message decides.
CompareVerdict(compare) ==
    IF compare > 0 THEN "bad_request.conflict"
    ELSE IF compare = 0 THEN "bad_request.duplicate"
    ELSE "ok"

RowMessage(db, tsHash) == CHOOSE m \in getMessage(db, tsHash) : TRUE

\* Look up the removes index, then the adds index, at the message's body
\* key: a stored message ahead of the incoming one rejects it (conflict), the
\* same message rejects it (duplicate), a stored message behind it is a
\* conflict that the merge deletes.
getMergeConflicts(db, m) ==
    LET key == KeyOf(m)
        removeTsHash == db.linkRemoves[key]
        addTsHash == db.linkAdds[key]
        hasRemove == removeTsHash # NoRow
        hasAdd == addTsHash # NoRow
        removeVerdict ==
            IF hasRemove
            THEN CompareVerdict(messageCompare("LinkRemove", removeTsHash, m.type, TsHash(m)))
            ELSE "ok"
        addVerdict ==
            IF hasAdd
            THEN CompareVerdict(messageCompare("LinkAdd", addTsHash, m.type, TsHash(m)))
            ELSE "ok"
        fail(code, text) == [result |-> code, text |-> text, conflicts |-> <<>>]
    IN  IF removeVerdict = "bad_request.conflict"
        THEN fail(removeVerdict, "message conflicts with a more recent remove")
        ELSE IF removeVerdict = "bad_request.duplicate"
        THEN fail(removeVerdict, "message has already been merged")
        ELSE IF hasRemove /\ getMessage(db, removeTsHash) = {}
        THEN fail("not_found", "")
        ELSE IF addVerdict = "bad_request.conflict"
        THEN fail(addVerdict, "message conflicts with a more recent add")
        ELSE IF addVerdict = "bad_request.duplicate"
        THEN fail(addVerdict, "message has already been merged")
        ELSE IF hasAdd /\ getMessage(db, addTsHash) = {}
        THEN fail("not_found", "")
        ELSE [result |-> "ok", text |-> "",
              conflicts |->
                  (IF hasRemove THEN <<RowMessage(db, removeTsHash)>> ELSE <<>>)
                  \o (IF hasAdd THEN <<RowMessage(db, addTsHash)>> ELSE <<>>)]

SeqRange(s) == { s[i] : i \in 1..Len(s) }

\* Variant: the index rows of deleted messages are left behind.
IndexAfter_KeepRows(index, type, gone, put) ==
    [k \in Keys |->
        IF \E p \in put : p.type = type /\ KeyOf(p) = k
        THEN TsHash(CHOOSE p \in put : p.type = type /\ KeyOf(p) = k)
        ELSE index[k]]

\* An index after deleting the rows of the messages in `gone` and putting
\* the row of each message in `put` (a set of at most one message).
IndexAfter(index, type, gone, put) ==
    [k \in Keys |->
        IF \E p \in put : p.type = type /\ KeyOf(p) = k
        THEN TsHash(CHOOSE p \in put : p.type = type /\ KeyOf(p) = k)
        ELSE IF \E g \in gone : g.type = type /\ KeyOf(g) = k /\ index[k] = TsHash(g)
        THEN NoRow
        ELSE index[k]]

\* Variant: the by-target rows of deleted messages are left behind.
RowsAfter_KeepTargetRows(db, gone, put) ==
    [primary |-> (db.primary \ gone) \cup put,
     linkAdds |-> IndexAfter(db.linkAdds, "LinkAdd", gone, put),
     linkRemoves |-> IndexAfter(db.linkRemoves, "LinkRemove", gone, put),
     byTarget |->
        db.byTarget \cup { TargetRow(p) : p \in { x \in put : x.type = "LinkAdd" } }]

\* The database after one committed transaction that deletes the messages
\* in `gone` and puts those in `put`, each with its index rows.
RowsAfter(db, gone, put) ==
    [primary |-> (db.primary \ gone) \cup put,
     linkAdds |-> IndexAfter(db.linkAdds, "LinkAdd", gone, put),
     linkRemoves |-> IndexAfter(db.linkRemoves, "LinkRemove", gone, put),
     byTarget |->
        (db.byTarget \ { TargetRow(g) : g \in { x \in gone : x.type = "LinkAdd" } })
            \cup { TargetRow(p) : p \in { x \in put : x.type = "LinkAdd" } }]

MergeEvent(id, m, deleted) ==
    [type |-> "MergeMessage", id |-> id, message |-> m, deletedMessages |-> deleted]

\* merge(message): the quota check first, then conflict resolution, then one
\* transaction that deletes the conflicts, puts the message and its index
\* rows, and appends one MergeMessage event with id `id`.
merge(db, id, m) ==
    IF isPrunable(db, m)
    THEN [result |-> "bad_request.prunable", text |-> "message would be pruned",
          rows |-> db, events |-> <<>>]
    ELSE LET c == getMergeConflicts(db, m) IN
         IF c.result # "ok"
         THEN [result |-> c.result, text |-> c.text, rows |-> db, events |-> <<>>]
         ELSE [result |-> "ok", text |-> "",
               rows |-> RowsAfter(db, SeqRange(c.conflicts), {m}),
               events |-> <<MergeEvent(id, m, c.conflicts)>>]

(***************************************************************************)
(* LinkStore.revoke.                                                       *)
(***************************************************************************)
RevokeEvent(id, m) == [type |-> "RevokeMessage", id |-> id, message |-> m]

\* Variant: revoking a message that is not stored does nothing at all.
revoke_StoredOnly(db, id, m) ==
    [result |-> "ok", text |-> "",
     rows |-> RowsAfter(db, {m}, {}),
     events |-> IF m \in db.primary THEN <<RevokeEvent(id, m)>> ELSE <<>>]

\* revoke(message): deletes the primary row and the index rows of the
\* message and appends one RevokeMessage event, whether or not the message
\* was stored.
revoke(db, id, m) ==
    [result |-> "ok", text |-> "",
     rows |-> RowsAfter(db, {m}, {}),
     events |-> <<RevokeEvent(id, m)>>]

(***************************************************************************)
(* LinkStore.pruneMessages.                                                *)
(***************************************************************************)
PruneEvent(id, m) == [type |-> "PruneMessage", id |-> id, message |-> m]

RECURSIVE SortedByTsHash(_)
\* The messages of a set in ascending tsHash order.
SortedByTsHash(S) ==
    IF S = {} THEN <<>>
    ELSE LET first == CHOOSE m \in S :
                        \A o \in S : bytesCompare(TsHash(m), TsHash(o)) <= 0
         IN  <<first>> \o SortedByTsHash(S \ {first})

\* Variant: pruning stops one message above the limit.
PruneCandidates_StopAbove(db) ==
    LET sorted == SortedByTsHash(db.primary)
        excess == IF MessageCount(db) > StoreLimit + 1
                  THEN MessageCount(db) - StoreLimit - 1 ELSE 0
    IN  SubSeq(sorted, 1, excess)

\* Variant: the latest messages are pruned instead of the earliest.
PruneCandidates_Latest(db) ==
    LET sorted == SortedByTsHash(db.primary)
        excess == IF MessageCount(db) > StoreLimit
                  THEN MessageCount(db) - StoreLimit ELSE 0
    IN  SubSeq(sorted, Len(sorted) - excess + 1, Len(sorted))

\* The earliest messages in excess of the limit, in ascending tsHash order.
PruneCandidates(db) ==
    LET sorted == SortedByTsHash(db.primary)
        excess == IF MessageCount(db) > StoreLimit
                  THEN MessageCount(db) - StoreLimit ELSE 0
    IN  SubSeq(sorted, 1, excess)

\* pruneMessages(fid): removes the earliest messages until the count is
\* within the limit, one PruneMessage event each.
pruneMessages(db, id) ==
    LET pruned == PruneCandidates(db) IN
    [result |-> "ok", text |-> "",
     rows |-> RowsAfter(db, SeqRange(pruned), {}),
     events |-> [i \in 1..Len(pruned) |-> PruneEvent(id + i - 1, pruned[i])]]

(***************************************************************************)
(* The store as a state machine.                                           *)
(***************************************************************************)
NoMessage == [type |-> "none"]

\* One call on the store: its transaction and events are committed and its
\* result is returned to the caller.
Commit(op, m, out) ==
    /\ nextEventId + Len(out.events) - 1 <= MaxEventId
    /\ primary' = out.rows.primary
    /\ linkAdds' = out.rows.linkAdds
    /\ linkRemoves' = out.rows.linkRemoves
    /\ byTarget' = out.rows.byTarget
    /\ nextEventId' = nextEventId + Len(out.events)
    /\ lastResult' = [op |-> op, message |-> m, result |-> out.result,
                      text |-> out.text, events |-> out.events]
    /\ UNCHANGED <<pruneSizeLimit, hubEvents, legacyRows, engineVars, syncVars>>

Merge(m) == Commit("merge", m, merge(RowsNow, nextEventId, m))

Revoke(m) == Commit("revoke", m, revoke(RowsNow, nextEventId, m))

PruneMessages == Commit("pruneMessages", NoMessage, pruneMessages(RowsNow, nextEventId))

\* The stores and the calls of a new engine: no custody event, empty
\* stores, no job, no call.
InitEngineStores ==
    /\ custodyEvent = [type |-> "none"]
    /\ nameRegistryEvent = [type |-> "none"]
    /\ stored = {}
    /\ revokeSignerQueue = {}
    /\ validationWorkerJobId = 0
    /\ validationWorkerPromiseMap = {}
    /\ mergeResult = [message |-> [type |-> "none"], result |-> "ok"]
    /\ validating = {}
    /\ validated = {}
    /\ handlers = EmptyBag
    /\ revokeJob = [signer |-> "", iterator |-> {}, key |-> {}, loaded |-> {}]
    /\ pruning = 0
    /\ overlaps = 0

\* A new engine: it has no validation worker before start().
InitEngineVars ==
    /\ InitEngineStores
    /\ validationWorker = FALSE

\* Two of FCNode.instanceNames.
InstanceNames == {"Cook", "Friar"}

\* The fids of the engine over several fids.
HubFids == {1, 2}

\* No call of the engine over several fids has returned in the last step.
NoHubCall == [op |-> "none", arg |-> 0, result |-> "ok", revoked |-> {}, failed |-> {}]

\* The job worker of the engine over several fids runs no job.
NoHubJob ==
    [fid |-> 0, signer |-> "", iterator |-> {}, key |-> {}, loaded |-> {},
     revokedCount |-> 0]

\* The store events that Engine.start registers a handler for.
EngineEvents ==
    {"mergeIdRegistryEvent", "mergeNameRegistryEvent", "mergeMessage",
     "revokeMessage", "pruneMessage"}

\* A new engine: no listener, no validation worker, the job worker not
\* started, no validation requested, no handler waiting for enqueueJob, no
\* job in the queue, no stop waiting for a worker to terminate, no worker
\* thread outside the field.
InitLifecycle ==
    lifecycle = [listeners |-> [e \in EngineEvents |-> 0],
                 validationWorker |-> "undefined",
                 revokeSignerWorker |-> "constructed",
                 validationWorkerJobId |-> 0,
                 validationWorkerPromiseMap |-> {},
                 posted |-> {},
                 terminating |-> FALSE,
                 stopping |-> 0,
                 orphaned |-> {},
                 resolved |-> [i \in 0..(MaxJobId - 1) |-> 0],
                 enqueueing |-> 0,
                 queued |-> 0,
                 call |-> [op |-> "none", id |-> 0, resolved |-> {}]]

\* A new RetryProvider: no request yet.
InitProvider ==
    provider = [method |-> "none", altDelay |-> 0, attempt |-> 0, calls |-> 0,
                status |-> "idle", last |-> "none", errors |-> <<>>, waits |-> <<>>]

\* A new SignerSet: no custody signer, no key, no message.
InitSignerSet ==
    signerSet = [state |-> [custodySigners |-> {}, vertexAdds |-> {},
                            vertexRemoves |-> {}, edgeAdds |-> {},
                            edgeRemoves |-> {}, messages |-> {}],
                 call |-> [op |-> "none", message |-> "", result |-> "ok"]]

InitOtherVars == InitLifecycle /\ InitProvider /\ InitSignerSet

\* A new sync trie: the root node, without children; new nodes, each with
\* an empty engine; no sync yet; a new engine over several fids.
InitSyncVars ==
    /\ syncTrie = [p \in {<<>>} |-> {}]
    /\ nodes = [n \in InstanceNames |->
                  [root |-> 0, castAdds |-> {}, castDeletes |-> {}, reactions |-> {}]]
    /\ lastSync = [self |-> "none", peer |-> "none", transferred |-> {}]
    /\ hub = [custody |-> [f \in HubFids |-> [type |-> "none"]],
              nameEvent |-> [type |-> "none"], messages |-> {}, jobs |-> {},
              calls |-> {}, handlers |-> EmptyBag, prunes |-> {}, job |-> NoHubJob,
              overlaps |-> 0, failures |-> 0, call |-> NoHubCall]
    /\ InitOtherVars

\* A new link store on an empty database.
InitStoreVars ==
    /\ primary = {}
    /\ linkAdds = [k \in Keys |-> NoRow]
    /\ linkRemoves = [k \in Keys |-> NoRow]
    /\ byTarget = {}
    /\ nextEventId = 1
    /\ lastResult = [op |-> "none", message |-> NoMessage, result |-> "ok",
                     text |-> "", events |-> <<>>]
    /\ hubEvents = <<>>
    /\ legacyRows = {}

Init ==
    /\ InitStoreVars
    /\ InitSyncVars
    /\ pruneSizeLimit \in DefaultLimits \cup {SizedLimit}
    /\ InitEngineVars

Next ==
    \/ \E m \in Messages : Merge(m)
    \/ \E m \in Messages : Revoke(m)
    \/ PruneMessages

Spec == Init /\ [][Next]_vars

(***************************************************************************)
(* The same store without the record of the last call: the rows and the    *)
(* event counter only.                                                     *)
(***************************************************************************)
CommitRows(out) ==
    /\ nextEventId + Len(out.events) - 1 <= MaxEventId
    /\ primary' = out.rows.primary
    /\ linkAdds' = out.rows.linkAdds
    /\ linkRemoves' = out.rows.linkRemoves
    /\ byTarget' = out.rows.byTarget
    /\ nextEventId' = nextEventId + Len(out.events)
    /\ UNCHANGED <<pruneSizeLimit, lastResult, hubEvents, legacyRows, engineVars, syncVars>>

MergeRows(m) == CommitRows(merge(RowsNow, nextEventId, m))

RevokeRows(m) == CommitRows(revoke(RowsNow, nextEventId, m))

PruneRows == CommitRows(pruneMessages(RowsNow, nextEventId))

NextRows ==
    \/ \E m \in Messages : MergeRows(m)
    \/ \E m \in Messages : RevokeRows(m)
    \/ PruneRows

SpecRows == Init /\ [][NextRows]_vars

(***************************************************************************)
(* The store under adds and removes of links to several targets, one       *)
(* message per (type, body, timestamp): the rows and the event counter.    *)
(***************************************************************************)
TimedMessages ==
    { Message(t, lt, tg, ts, 0) :
        t \in MessageTypes, lt \in LinkTypes, tg \in AllTargets,
        ts \in 1..MaxTimestamp }

NextPrune ==
    \/ \E m \in TimedMessages : MergeRows(m)
    \/ \E m \in TimedMessages : RevokeRows(m)
    \/ PruneRows

SpecPrune == Init /\ [][NextPrune]_vars

(***************************************************************************)
(* The store with its event log and the events API, under one message per  *)
(* (type, body, timestamp) to one target.                                  *)
(***************************************************************************)
\* Variant: the page starts after the requested id.
getHubEvents_After(log, fromEventId) ==
    SelectSeq(log, LAMBDA e : e.id > fromEventId)

\* GET /v1/events?fromEventId=: the logged events from the requested id on,
\* in log order.
getHubEvents(log, fromEventId) ==
    SelectSeq(log, LAMBDA e : e.id >= fromEventId)

\* What the log keeps of the events of one call.
LogEntries(events) ==
    [i \in 1..Len(events) |-> [id |-> events[i].id, type |-> events[i].type]]

LoggedMessages ==
    { Message(t, lt, tg, ts, 0) :
        t \in MessageTypes, lt \in LinkTypes, tg \in Targets, ts \in 1..MaxTimestamp }

\* One call on the store: its transaction is committed, its events are
\* appended to the log, its result is returned.
CommitLogged(op, m, out) ==
    /\ nextEventId + Len(out.events) - 1 <= MaxEventId
    /\ primary' = out.rows.primary
    /\ linkAdds' = out.rows.linkAdds
    /\ linkRemoves' = out.rows.linkRemoves
    /\ byTarget' = out.rows.byTarget
    /\ nextEventId' = nextEventId + Len(out.events)
    /\ hubEvents' = hubEvents \o LogEntries(out.events)
    /\ lastResult' = [op |-> op, message |-> m, result |-> out.result,
                      text |-> out.text, events |-> out.events]
    /\ UNCHANGED <<pruneSizeLimit, legacyRows, engineVars, syncVars>>

MergeLogged(m) == CommitLogged("merge", m, merge(RowsNow, nextEventId, m))

RevokeLogged(m) == CommitLogged("revoke", m, revoke(RowsNow, nextEventId, m))

PruneLogged == CommitLogged("pruneMessages", NoMessage, pruneMessages(RowsNow, nextEventId))

NextEvents ==
    \/ \E m \in LoggedMessages : MergeLogged(m)
    \/ \E m \in LoggedMessages : RevokeLogged(m)
    \/ PruneLogged

SpecEvents == Init /\ [][NextEvents]_vars

(***************************************************************************)
(* The store over a database that holds index rows under legacy keys (the  *)
(* link type not padded to its full width).                                *)
(***************************************************************************)
\* The width of the link type field of a canonical key, and the width of
\* the type field of a legacy key: the bytes of "follow", not padded.
MaxTypeWidth == 8
TypeWidth == 6

\* The canonical index key of a message type and body: the link type padded
\* to the full width.
makeLinkKey(type, key) == [postfix |-> type, key |-> key, width |-> MaxTypeWidth]

\* The legacy index key of a message: its fid and target, and the type
\* field "follow" at its own width whatever the link type of the message.
makeIncorrectKey(m) ==
    [postfix |-> m.type,
     key |-> [fid |-> m.fid, linkType |-> "follow", targetFid |-> m.targetFid],
     width |-> TypeWidth]

\* The index row of a message under its legacy key.
LegacyRow(m) ==
    [type |-> m.type, key |-> makeIncorrectKey(m).key, tsHash |-> TsHash(m)]

\* The legacy rows at the body key of a message, the removes row first.
LegacyRowsAt(legacy, key) ==
    LET rows(type) == { r \in legacy : r.type = type /\ r.key = key }
        one(type) == IF rows(type) = {} THEN <<>> ELSE <<CHOOSE r \in rows(type) : TRUE>>
    IN  one("LinkRemove") \o one("LinkAdd")

\* Variant: the legacy rows of deleted messages are left behind.
LegacyRowsAfter_Keep(legacy, gone) == legacy

\* The legacy rows after a transaction that deletes the messages in `gone`.
LegacyRowsAfter(legacy, gone) == legacy \ { LegacyRow(g) : g \in gone }

\* Conflict resolution against the messages indexed under the legacy key of
\* the incoming message's body: as for the rows under the padded key.
getLegacyConflicts(db, legacy, m) ==
    LET rows == LegacyRowsAt(legacy, KeyOf(m))
        verdict(r) == CompareVerdict(messageCompare(r.type, r.tsHash, m.type, TsHash(m)))
        fail(code, text) == [result |-> code, text |-> text, conflicts |-> <<>>]
    IN  IF \E i \in 1..Len(rows) : verdict(rows[i]) = "bad_request.conflict"
        THEN fail("bad_request.conflict", "message conflicts with a more recent message")
        ELSE IF \E i \in 1..Len(rows) : verdict(rows[i]) = "bad_request.duplicate"
        THEN fail("bad_request.duplicate", "message has already been merged")
        ELSE [result |-> "ok", text |-> "",
              conflicts |-> [i \in 1..Len(rows) |-> RowMessage(db, rows[i].tsHash)]]

\* merge(message) on a database with legacy rows: the conflicts under the
\* padded key and under the legacy key are resolved, and one transaction
\* deletes the losing messages with their index rows, legacy rows included,
\* and puts the message under the padded key.
mergeOverLegacy(db, legacy, id, m) ==
    LET c == getMergeConflicts(db, m)
        lc == getLegacyConflicts(db, legacy, m)
        fail(code, text) ==
            [result |-> code, text |-> text, rows |-> db, legacy |-> legacy,
             events |-> <<>>]
    IN  IF isPrunable(db, m) THEN fail("bad_request.prunable", "message would be pruned")
        ELSE IF c.result # "ok" THEN fail(c.result, c.text)
        ELSE IF lc.result # "ok" THEN fail(lc.result, lc.text)
        ELSE LET deleted == c.conflicts \o lc.conflicts IN
             [result |-> "ok", text |-> "",
              rows |-> RowsAfter(db, SeqRange(deleted), {m}),
              legacy |-> LegacyRowsAfter(legacy, SeqRange(deleted)),
              events |-> <<MergeEvent(id, m, deleted)>>]

\* insertWithIncorrectPadding: one transaction puts the tsHash of the
\* message under its legacy key, over the row that key holds, and the
\* primary row of the message; no event.
InsertWithIncorrectPadding(m) ==
    /\ primary' = primary \cup {m}
    /\ legacyRows' =
          { r \in legacyRows :
              ~(r.type = m.type /\ r.key = makeIncorrectKey(m).key) }
            \cup {LegacyRow(m)}
    /\ UNCHANGED <<linkAdds, linkRemoves>>
    /\ lastResult' = [op |-> "insertWithIncorrectPadding", message |-> m,
                      result |-> "ok", text |-> "", events |-> <<>>]
    /\ UNCHANGED <<byTarget, nextEventId, pruneSizeLimit, hubEvents, engineVars, syncVars>>

MergeOverLegacy(m) ==
    LET out == mergeOverLegacy(RowsNow, legacyRows, nextEventId, m) IN
    /\ nextEventId + Len(out.events) - 1 <= MaxEventId
    /\ primary' = out.rows.primary
    /\ linkAdds' = out.rows.linkAdds
    /\ linkRemoves' = out.rows.linkRemoves
    /\ byTarget' = out.rows.byTarget
    /\ legacyRows' = out.legacy
    /\ nextEventId' = nextEventId + Len(out.events)
    /\ lastResult' = [op |-> "merge", message |-> m, result |-> out.result,
                      text |-> out.text, events |-> out.events]
    /\ UNCHANGED <<pruneSizeLimit, hubEvents, engineVars, syncVars>>

InitLegacy ==
    /\ InitStoreVars
    /\ InitSyncVars
    /\ pruneSizeLimit \in DefaultLimits
    /\ InitEngineVars

\* The messages the earlier version of the store can have left under a
\* legacy key: a message of link type "follow", the type of the key, at a
\* body key that holds no message (that store kept one message per body).
WrittenUnderLegacyKey(messages) ==
    { m \in messages :
        /\ KeyOf(m) = makeIncorrectKey(m).key
        /\ { q \in primary : KeyOf(q) = KeyOf(m) } = {} }

NextLegacy ==
    \/ \E m \in WrittenUnderLegacyKey(Messages) : InsertWithIncorrectPadding(m)
    \/ \E m \in Messages : MergeOverLegacy(m)

SpecLegacy == InitLegacy /\ [][NextLegacy]_vars

(***************************************************************************)
(* Reads over a database that holds legacy rows, and link types of the     *)
(* full width.                                                             *)
(***************************************************************************)
\* Variant: the readers look under the canonical key only.
getLinkRow_PaddedOnly(index, legacy, type, key) == index[key]

\* The index row a reader finds for a message type and body key: the row
\* under the canonical key, or else the row under the legacy key.
getLinkRow(index, legacy, type, key) ==
    IF index[key] # NoRow THEN index[key]
    ELSE LET rows == { r \in legacy : r.type = type /\ r.key = key } IN
         IF rows = {} THEN NoRow ELSE (CHOOSE r \in rows : TRUE).tsHash

\* getLinkAdd / getLinkRemove on a database with legacy rows.
getLinkAddWithLegacy(db, legacy, key) ==
    LET row == getLinkRow(db.linkAdds, legacy, "LinkAdd", key) IN
    IF row = NoRow THEN {} ELSE getMessage(db, row)

getLinkRemoveWithLegacy(db, legacy, key) ==
    LET row == getLinkRow(db.linkRemoves, legacy, "LinkRemove", key) IN
    IF row = NoRow THEN {} ELSE getMessage(db, row)

\* Messages of a short and of a full-width link type, one target.
PaddingMessages ==
    { Message(t, lt, tg, ts, 0) :
        t \in MessageTypes, lt \in {"follow"} \cup MaxWidthTypes, tg \in Targets,
        ts \in 1..MaxTimestamp }

NextPadding ==
    \/ \E m \in WrittenUnderLegacyKey(PaddingMessages) : InsertWithIncorrectPadding(m)
    \/ \E m \in PaddingMessages : MergeOverLegacy(m)

SpecPadding == InitLegacy /\ [][NextPadding]_vars

(***************************************************************************)
(* Paged reads: pageOptions are a page token (the key of the last row the  *)
(* page before visited), a page size and a reverse flag.                   *)
(***************************************************************************)
MaxPageSize == 2
DefaultPageSize == 100
NoToken == <<>>
PageOptions ==
    [pageToken : {NoToken}, pageSize : (1..MaxPageSize) \cup {DefaultPageSize},
     reverse : BOOLEAN]

RECURSIVE Reversed(_)
Reversed(s) == IF s = <<>> THEN <<>> ELSE Append(Reversed(Tail(s)), Head(s))

\* Variant: the iterator starts at the row of the page token.
rowsFrom_Inclusive(rows, pageToken, reverse) ==
    LET ordered == IF reverse THEN Reversed(rows) ELSE rows IN
    IF pageToken = NoToken THEN ordered
    ELSE SelectSeq(ordered, LAMBDA m :
            IF reverse THEN bytesCompare(TsHash(m), pageToken) <= 0
            ELSE bytesCompare(TsHash(m), pageToken) >= 0)

\* The rows the iterator of a page visits: all rows in key order, or in
\* reverse key order, from the row after the page token.
rowsFrom(rows, pageToken, reverse) ==
    LET ordered == IF reverse THEN Reversed(rows) ELSE rows IN
    IF pageToken = NoToken THEN ordered
    ELSE SelectSeq(ordered, LAMBDA m :
            IF reverse THEN bytesCompare(TsHash(m), pageToken) < 0
            ELSE bytesCompare(TsHash(m), pageToken) > 0)

\* The page: rows are visited until the page is full or no row is left;
\* a full page carries the key of the last row visited as its token.
RECURSIVE scanPage(_, _, _, _, _)
scanPage(rows, i, messages, matching, pageSize) ==
    IF Len(messages) >= pageSize
    THEN [messages |-> messages, nextPageToken |-> TsHash(rows[i - 1])]
    ELSE IF i > Len(rows)
    THEN [messages |-> messages, nextPageToken |-> NoToken]
    ELSE scanPage(rows, i + 1,
                  IF rows[i] \in matching THEN Append(messages, rows[i]) ELSE messages,
                  matching, pageSize)

getMessagesPage(rows, matching, pageOptions) ==
    scanPage(rowsFrom(rows, pageOptions.pageToken, pageOptions.reverse), 1, <<>>,
             matching, pageOptions.pageSize)

\* getLinkAddsByFid(fid, undefined, pageOptions): the primary rows of the
\* fid in key (tsHash) order, the LinkAdds among them.
getLinkAddsByFid(db, pageOptions) ==
    getMessagesPage(SortedByTsHash(db.primary),
                    { m \in db.primary : m.type = "LinkAdd" }, pageOptions)

\* getLinksByTarget(targetFid, undefined, pageOptions): the by-target rows
\* of the target in key (tsHash) order, each with its message.
getLinksByTargetPage(db, targetFid, pageOptions) ==
    LET found == getLinksByTarget(db, targetFid) IN
    getMessagesPage(SortedByTsHash(found), found, pageOptions)

\* A client reads a page: the first one, or the one after the page it read
\* last.
ReadPage(op, targetFid, page, pageOptions) ==
    /\ lastResult' = [op |-> op, message |-> NoMessage, result |-> "ok", text |-> "",
                      events |-> <<>>, targetFid |-> targetFid,
                      pageOptions |-> pageOptions, page |-> page]
    /\ UNCHANGED <<primary, linkAdds, linkRemoves, byTarget, nextEventId,
                   pruneSizeLimit, hubEvents, legacyRows, engineVars, syncVars>>

NextTokens(op, targetFid) ==
    {NoToken} \cup (IF lastResult.op = op /\ lastResult.targetFid = targetFid
                    THEN {lastResult.page.nextPageToken} ELSE {})

GetLinkAddsByFid(pageOptions) ==
    ReadPage("getLinkAddsByFid", "", getLinkAddsByFid(RowsNow, pageOptions),
             pageOptions)

GetLinksByTarget(targetFid, pageOptions) ==
    ReadPage("getLinksByTarget", targetFid,
             getLinksByTargetPage(RowsNow, targetFid, pageOptions), pageOptions)

\* The reads of the client: pages of one message, in either direction.
ClientOptions == { o \in PageOptions : o.pageSize = 1 }

InitPages ==
    /\ InitStoreVars
    /\ InitSyncVars
    /\ pruneSizeLimit \in DefaultLimits
    /\ InitEngineVars

NextPages ==
    \/ \E m \in TimedMessages : MergeRows(m)
    \/ \E o \in ClientOptions, t \in NextTokens("getLinkAddsByFid", "") :
          GetLinkAddsByFid([o EXCEPT !.pageToken = t])
    \/ \E tg \in Targets, o \in ClientOptions :
          \E t \in NextTokens("getLinksByTarget", tg) :
            GetLinksByTarget(tg, [o EXCEPT !.pageToken = t])

SpecPages == InitPages /\ [][NextPages]_vars

(***************************************************************************)
(* The sync trie: a Merkle prefix trie over SyncIds, kept as one row per   *)
(* node prefix. A leaf holds its SyncId; the hash of an inner node is      *)
(* taken over the hashes of its children, whatever their order.            *)
(***************************************************************************)
\* SyncId: timestamp, type, fid, hash.
SyncId(m) == <<m.timestamp, m.type, m.fid, m.hash>>
SyncIdLength == 4

\* SyncId.pkFromSyncId: the primary key of the message of a SyncId.
pkFromSyncId(syncId) == makeTsHash(syncId[1], syncId[4])

\* Engine.getAllMessagesBySyncIds: the stored messages of the given ids.
getAllMessagesBySyncIds(db, syncIds) ==
    UNION { getMessage(db, pkFromSyncId(id)) : id \in syncIds }

\* The rows of the children of the node at prefix p.
Children(trie, p) ==
    { q \in DOMAIN trie : Len(q) = Len(p) + 1 /\ SubSeq(q, 1, Len(p)) = p }

\* The hash of an inner node over the rows of its children.
nodeHashOver(trie, kids) == { <<k[Len(k)], trie[k]>> : k \in kids }

\* Variant: nodes left without children stay in the trie.
recomputeNode_KeepEmpty(trie, p) ==
    LET kids == Children(trie, p) IN
    [q \in DOMAIN trie \cup {p} |->
        IF q = p THEN nodeHashOver(trie, kids) ELSE trie[q]]

\* The node at prefix p after a change below it: its hash over its
\* children, or no row when no child is left (the root always has a row).
recomputeNode(trie, p) ==
    LET kids == Children(trie, p) IN
    IF kids = {} /\ Len(p) > 0
    THEN [q \in DOMAIN trie \ {p} |-> trie[q]]
    ELSE [q \in DOMAIN trie \cup {p} |->
            IF q = p THEN nodeHashOver(trie, kids) ELSE trie[q]]

\* Recompute the hashes on the path of a SyncId, from depth d up to the root.
RECURSIVE recomputeHashes(_, _, _)
recomputeHashes(trie, syncId, d) ==
    LET next == recomputeNode(trie, SubSeq(syncId, 1, d)) IN
    IF d = 0 THEN next ELSE recomputeHashes(next, syncId, d - 1)

\* insert(syncId): the leaf, then the hashes of its ancestors.
trieInsert(trie, syncId) ==
    IF syncId \in DOMAIN trie THEN trie
    ELSE recomputeHashes(
            [q \in DOMAIN trie \cup {syncId} |-> IF q = syncId THEN syncId ELSE trie[q]],
            syncId, SyncIdLength - 1)

\* remove(syncId): the leaf, when there is one, then its ancestors.
trieRemove(trie, syncId) ==
    IF syncId \notin DOMAIN trie THEN trie
    ELSE recomputeHashes([q \in DOMAIN trie \ {syncId} |-> trie[q]],
                         syncId, SyncIdLength - 1)

RECURSIVE trieRemoveAll(_, _)
trieRemoveAll(trie, messages) ==
    IF messages = <<>> THEN trie
    ELSE trieRemoveAll(trieRemove(trie, SyncId(Head(messages))), Tail(messages))

\* The trie after the handlers of the hub events of one commit: a merged
\* message is inserted and the messages it deleted are removed; a pruned or
\* revoked message is removed.
RECURSIVE trieAfterEvents(_, _)
trieAfterEvents(trie, events) ==
    IF events = <<>> THEN trie
    ELSE LET e == Head(events)
             after == IF e.type = "MergeMessage"
                      THEN trieRemoveAll(trieInsert(trie, SyncId(e.message)),
                                         e.deletedMessages)
                      ELSE trieRemove(trie, SyncId(e.message))
         IN  trieAfterEvents(after, Tail(events))

\* getSyncRootHash and getAllSyncIdsByPrefix.
rootHash(trie) == trie[<<>>]
getAllSyncIdsByPrefix(trie, p) ==
    { q \in DOMAIN trie : Len(q) = SyncIdLength /\ SubSeq(q, 1, Len(p)) = p }

\* One call on the store with the trie updated from its events.
CommitSynced(out) ==
    /\ nextEventId + Len(out.events) - 1 <= MaxEventId
    /\ primary' = out.rows.primary
    /\ linkAdds' = out.rows.linkAdds
    /\ linkRemoves' = out.rows.linkRemoves
    /\ byTarget' = out.rows.byTarget
    /\ nextEventId' = nextEventId + Len(out.events)
    /\ syncTrie' = trieAfterEvents(syncTrie, out.events)
    /\ UNCHANGED <<pruneSizeLimit, lastResult, hubEvents, legacyRows, engineVars,
                   nodes, lastSync, hub, otherVars>>

MergeSynced(m) == CommitSynced(merge(RowsNow, nextEventId, m))

RevokeSynced(m) == CommitSynced(revoke(RowsNow, nextEventId, m))

PruneSynced == CommitSynced(pruneMessages(RowsNow, nextEventId))

NextSync ==
    \/ \E m \in TimedMessages : MergeSynced(m)
    \/ \E m \in TimedMessages : RevokeSynced(m)
    \/ PruneSynced

SpecSync == Init /\ [][NextSync]_vars

(***************************************************************************)
(* Nodes that sync the messages of one user with a peer (FCNode).          *)
(***************************************************************************)
MaxRootBlock == 2
MaxCastId == 3

\* The messages of the user: casts and one reaction signed under the root
\* of block 1, and the delete of the first cast.
CastAdds == { [kind |-> "CastShort", hash |-> i, rootBlock |-> 1] : i \in 1..MaxCastId }
CastDeletes == { [kind |-> "CastDelete", hash |-> 0, targetHash |-> 1, rootBlock |-> 1] }
Reactions == { [kind |-> "Reaction", hash |-> MaxCastId + 1, rootBlock |-> 1] }

\* engine.addRoot: a root of a later block replaces the root and drops the
\* messages signed under the earlier one.
addRoot(engine, rootBlock) ==
    IF rootBlock > engine.root
    THEN [root |-> rootBlock, castAdds |-> {}, castDeletes |-> {}, reactions |-> {}]
    ELSE engine

\* engine.addCast: a cast or a cast delete of the current root; a delete
\* removes the cast it targets, and a deleted cast is not added again.
addCast(engine, cast) ==
    IF cast.rootBlock # engine.root THEN engine
    ELSE IF cast.kind = "CastDelete"
    THEN [engine EXCEPT !.castAdds = { c \in @ : c.hash # cast.targetHash },
                        !.castDeletes = @ \cup {cast}]
    ELSE IF \E d \in engine.castDeletes : d.targetHash = cast.hash THEN engine
    ELSE [engine EXCEPT !.castAdds = @ \cup {cast}]

\* engine.addReaction: a reaction of the current root.
addReaction(engine, reaction) ==
    IF reaction.rootBlock # engine.root THEN engine
    ELSE [engine EXCEPT !.reactions = @ \cup {reaction}]

\* Adds and deletes commute among themselves: the order of a batch of
\* messages of one kind does not matter.
RECURSIVE addCasts(_, _)
addCasts(engine, casts) ==
    IF casts = {} THEN engine
    ELSE LET c == CHOOSE x \in casts : TRUE IN addCasts(addCast(engine, c), casts \ {c})

RECURSIVE addReactions(_, _)
addReactions(engine, reactions) ==
    IF reactions = {} THEN engine
    ELSE LET r == CHOOSE x \in reactions : TRUE
         IN  addReactions(addReaction(engine, r), reactions \ {r})

\* Variant: the hashes the node holds and the peer does not.
missingHashes_Reversed(selfHashes, peerHashes) ==
    { h \in selfHashes : h \notin peerHashes }

\* peerHashes.filter((h) => !selfHashes.includes(h))
missingHashes(selfHashes, peerHashes) ==
    { h \in peerHashes : h \notin selfHashes }

\* peer.getCasts / peer.getReactions: the peer's messages of the hashes.
getCasts(engine, hashes) ==
    { c \in engine.castAdds \cup engine.castDeletes : c.hash \in hashes }
getReactions(engine, hashes) == { r \in engine.reactions : r.hash \in hashes }

\* FCNode.syncUserWithPeer: nothing when the peer has no root; else the
\* peer's root when it is not older, then the peer's cast adds, cast
\* deletes and reactions that the node does not hold, each list taken
\* after the step before it.
syncUserWithPeer(self, peer) ==
    IF peer.root = 0 THEN [engine |-> self, transferred |-> {}]
    ELSE LET hashes(S) == { x.hash : x \in S }
             s1 == IF self.root = 0 \/ self.root <= peer.root
                   THEN addRoot(self, peer.root) ELSE self
             adds == getCasts(peer, missingHashes(hashes(s1.castAdds),
                                                  hashes(peer.castAdds)))
             s2 == addCasts(s1, adds)
             deletes == getCasts(peer, missingHashes(hashes(s2.castDeletes),
                                                     hashes(peer.castDeletes)))
             s3 == addCasts(s2, deletes)
             reactions == getReactions(peer, missingHashes(hashes(s3.reactions),
                                                           hashes(peer.reactions)))
             s4 == addReactions(s3, reactions)
         IN  [engine |-> s4, transferred |-> adds \cup deletes \cup reactions]

\* Client API: addRoot, addCast, addReaction on one node.
AddRoot(n, rootBlock) ==
    /\ nodes' = [nodes EXCEPT ![n] = addRoot(@, rootBlock)]
    /\ UNCHANGED <<syncTrie, lastSync, hub, otherVars, storeVars, engineVars>>

AddCast(n, cast) ==
    /\ nodes' = [nodes EXCEPT ![n] = addCast(@, cast)]
    /\ UNCHANGED <<syncTrie, lastSync, hub, otherVars, storeVars, engineVars>>

AddReaction(n, reaction) ==
    /\ nodes' = [nodes EXCEPT ![n] = addReaction(@, reaction)]
    /\ UNCHANGED <<syncTrie, lastSync, hub, otherVars, storeVars, engineVars>>

\* FCNode.sync of a node with one peer.
SyncWithPeer(n, p) ==
    /\ n # p
    /\ LET out == syncUserWithPeer(nodes[n], nodes[p]) IN
         /\ nodes' = [nodes EXCEPT ![n] = out.engine]
         /\ lastSync' = [self |-> n, peer |-> p, transferred |-> out.transferred]
    /\ UNCHANGED <<syncTrie, hub, otherVars, storeVars, engineVars>>

NextNodes ==
    \/ \E n \in InstanceNames, b \in 1..MaxRootBlock : AddRoot(n, b)
    \/ \E n \in InstanceNames, c \in CastAdds \cup CastDeletes : AddCast(n, c)
    \/ \E n \in InstanceNames, r \in Reactions : AddReaction(n, r)
    \/ \E n, p \in InstanceNames : SyncWithPeer(n, p)

SpecNodes == Init /\ [][NextNodes]_vars

(***************************************************************************)
(* The engine.                                                             *)
(***************************************************************************)
CustodyA == "A"
CustodyB == "B"
Custodies == {CustodyA, CustodyB}
\* Delegate (Ed25519) signer keys.
Delegates == {"S"}
NoAddress == ""
FNAME == "FNAME"

\* The id-registry events of the fid: its registration to A and its
\* transfer from A to B in a later block.
NoCustodyEvent == [type |-> "none"]
RegisterEvent ==
    [type |-> "Register", from |-> NoAddress, to |-> CustodyA, blockNumber |-> 1]
TransferEvent ==
    [type |-> "Transfer", from |-> CustodyA, to |-> CustodyB, blockNumber |-> 2]
IdRegistryEvents == {RegisterEvent, TransferEvent}
\* The transfer of the fid from B back to A in a block after that.
TransferBackEvent ==
    [type |-> "Transfer", from |-> CustodyB, to |-> CustodyA, blockNumber |-> 3]

\* SignerAdd / SignerRemove messages: signed by a custody address, the body
\* names a delegate key; a SignerRemove of the time of the SignerAdd and a
\* later one.
SignerMessages ==
    [type : {"SignerAdd"}, signer : Custodies, key : Delegates, timestamp : {1}]
        \cup [type : {"SignerRemove"}, signer : Custodies, key : Delegates,
              timestamp : {1, 2}]

\* Messages signed by a delegate key: a cast, a reaction, a verification and
\* a follow.
UserMessages ==
    [type : {"CastAdd", "ReactionAdd", "VerificationAdd", "LinkAdd"},
     signer : Delegates, key : {NoAddress}, timestamp : {1}]

EngineMessages == SignerMessages \cup UserMessages

\* The store of a message type; a follow has no store in this engine.
typeToSetPostfix(type) ==
    IF type \in {"SignerAdd", "SignerRemove"} THEN "SignerMessage"
    ELSE IF type = "CastAdd" THEN "CastMessage"
    ELSE IF type = "ReactionAdd" THEN "ReactionMessage"
    ELSE IF type = "UserDataAdd" THEN "UserDataMessage"
    ELSE IF type = "VerificationAdd" THEN "VerificationMessage"
    ELSE "none"

isSignerAddMessage(m) == m.type = "SignerAdd"
isSignerRemoveMessage(m) == m.type = "SignerRemove"

\* Variant: the SignerAdd of the key signed by any custody address.
getSignerAdd_AnyCustody(db, custody, key) ==
    { a \in db : isSignerAddMessage(a) /\ a.key = key /\ custody.type # "none" }

\* SignerStore.getSignerAdd(fid, signer): the SignerAdd for the key signed by
\* the current custody address; the empty set when there is none.
getSignerAdd(db, custody, key) ==
    { a \in db : /\ isSignerAddMessage(a) /\ a.key = key
                 /\ custody.type # "none" /\ a.signer = custody.to }

\* The active signers of the fid.
getSigners(db, custody) == { k \in Delegates : getSignerAdd(db, custody, k) # {} }

\* Variant: the signer of a SignerAdd / SignerRemove is not compared with the
\* custody address.
validateSigner_AnySigner(custody, m) ==
    IF custody.type = "none" THEN "bad_request.validation_failure" ELSE "ok"

\* Step 3 of validateMessage and step 4 for a SignerAdd / SignerRemove, on
\* the custody event that getIdRegistryEvent returned: the fid has a
\* custody event, and the message is signed by its `to` address.
validateSigner(custody, m) ==
    IF custody.type = "none" THEN "bad_request.validation_failure"
    ELSE IF (isSignerAddMessage(m) \/ isSignerRemoveMessage(m))
            /\ m.signer # custody.to
    THEN "bad_request.validation_failure"
    ELSE "ok"

\* SignerStore.mergeIdRegistryEvent: the event of the later block wins.
mergeIdRegistryEventResult(custody, event) ==
    IF custody.type = "none" \/ custody.blockNumber < event.blockNumber
    THEN "ok"
    ELSE IF custody = event THEN "bad_request.duplicate"
    ELSE "bad_request.conflict"

\* The stored signer messages that a signer message conflicts with: same
\* custody address and same key.
signerConflicts(db, m) ==
    { s \in db : /\ typeToSetPostfix(s.type) = "SignerMessage"
                 /\ s.signer = m.signer /\ s.key = m.key }

\* Last-write-wins order of two signer messages of one key: a is ahead of b.
signerAhead(a, b) ==
    \/ a.timestamp > b.timestamp
    \/ a.timestamp = b.timestamp /\ isSignerRemoveMessage(a) /\ isSignerAddMessage(b)

\* store.merge(message) of the store the message is dispatched to.
storeMerge(db, m) ==
    IF m \in db
    THEN [result |-> "bad_request.duplicate", db |-> db]
    ELSE IF typeToSetPostfix(m.type) = "SignerMessage"
    THEN (IF \E s \in signerConflicts(db, m) : signerAhead(s, m)
          THEN [result |-> "bad_request.conflict", db |-> db]
          ELSE [result |-> "ok", db |-> (db \ signerConflicts(db, m)) \cup {m}])
    ELSE [result |-> "ok", db |-> db \cup {m}]

\* revokeSignerQueue.enqueueJob for each signer of a set.
enqueueJobs(signers) == revokeSignerQueue' = revokeSignerQueue \cup signers

\* What the check of the body and the envelope of a message answers, in the
\* worker or on the main thread.
ValidationAnswers == {"ok", "bad_request.validation_failure"}

\* The job id of a call that was validated on the main thread.
NoJobId == -1

\* The step returned from no mergeMessage call.
NoMergeResult == [message |-> [type |-> "none"], result |-> "ok"]

\* No revoke-by-signer job is running.
NoRevokeJob == [signer |-> NoAddress, iterator |-> {}, key |-> {}, loaded |-> {}]

\* The invocation of a handler of a store event that has an await ahead.
HandlerCall(handler, signer, at) ==
    [handler |-> handler, signer |-> signer, at |-> at]

\* The mergeMessage and validateOrRevokeMessage calls that have not
\* returned.
CallsInFlight ==
    Cardinality(validating) + Cardinality(validationWorkerPromiseMap)
        + Cardinality(validated)

\* The calls, handlers and jobs that are not at their end.
InProgress ==
    CallsInFlight + BagCardinality(handlers) + Cardinality(revokeSignerQueue)
        + (IF revokeJob = NoRevokeJob THEN 0 ELSE 1)
        + (IF pruning = 0 THEN 0 ELSE 1)

\* n calls can be made.
MayCall(n) ==
    /\ InProgress + n <= MaxCalls
    /\ InProgress + n > 1 => overlaps < MaxOverlaps

\* The n calls are made.
Called(n) == overlaps' = IF InProgress + n > 1 THEN overlaps + 1 ELSE overlaps

\* A call for the message has not returned.
InFlight(m) ==
    \/ \E c \in validating : c.message = m
    \/ \E e \in validationWorkerPromiseMap : e[2] = m
    \/ \E v \in validated : v.message = m

\* A call up to the first await of validateMessage: it waits for the
\* custody event of the fid.
validateMessageCall(op, m) ==
    [op |-> op, message |-> m, at |-> "validateMessage",
     custodyEvent |-> NoCustodyEvent, signerResult |-> "none"]

\* The size limit of each store of a fid.
HubPruneSizeLimit == 1

\* The order in which Engine.pruneMessages calls the stores.
PruneOrder ==
    <<"SignerMessage", "CastMessage", "ReactionMessage", "VerificationMessage",
      "UserDataMessage">>

\* The hashes of the messages, which order the messages of one timestamp in
\* a store.
MessageHash(m) ==
    (IF isSignerRemoveMessage(m) THEN 2 ELSE 0) + (IF m.signer = CustodyB THEN 1 ELSE 0)

\* The key of x in its store is after the key of m.
keyAfter(x, m) ==
    \/ x.timestamp > m.timestamp
    \/ x.timestamp = m.timestamp /\ MessageHash(x) > MessageHash(m)

\* The messages that pruneMessages of a store removes: those with at least
\* HubPruneSizeLimit messages after them in the store.
storePrune(db, postfix) ==
    LET kept == { m \in db : typeToSetPostfix(m.type) = postfix }
    IN  { m \in kept :
            Cardinality({ x \in kept : keyAfter(x, m) }) >= HubPruneSizeLimit }

\* Engine.handlePruneMessageEvent up to its await, for the PruneMessage
\* event of each of the messages: the handlers that wait for enqueueJob.
prunedHandlers(pruned) ==
    LET adds == { m \in pruned : isSignerAddMessage(m) }
        keys == { m.key : m \in adds }
    IN  [h \in { HandlerCall("handlePruneMessageEvent", k, "enqueueJob") :
                   k \in keys } |->
            Cardinality({ m \in adds : m.key = h.signer })]

\* UserDataStore.mergeNameRegistryEvent: the event of the later block wins.
mergeNameRegistryEventResult(current, event) ==
    IF current.type = "none" \/ current.blockNumber < event.blockNumber
    THEN "ok"
    ELSE IF current = event THEN "bad_request.duplicate"
    ELSE "bad_request.conflict"

\* The name-registry events of the fname of the fid: its transfer from
\* custody address A to B.
EngineNameRegistryEvents ==
    { [type |-> "Transfer", from |-> CustodyA, to |-> CustodyB, blockNumber |-> 1] }

EngineFrame == UNCHANGED <<storeVars, syncVars, validationWorker>>

\* Engine.mergeIdRegistryEvent: the signer store merges the event and the
\* call returns; handleMergeIdRegistryEvent is called with the hub event
\* and, for an event with a from address, goes on to enqueue a job.
MergeIdRegistryEvent(event) ==
    /\ MayCall(1)
    /\ Called(1)
    /\ mergeIdRegistryEventResult(custodyEvent, event) = "ok"
    /\ custodyEvent' = event
    /\ handlers' =
           IF event.from # NoAddress
           THEN handlers (+) SetToBag(
                    {HandlerCall("handleMergeIdRegistryEvent", event.from, "enqueueJob")})
           ELSE handlers
    /\ mergeResult' = NoMergeResult
    /\ UNCHANGED <<nameRegistryEvent, stored, revokeSignerQueue,
                   validationWorkerJobId, validationWorkerPromiseMap,
                   validating, validated, revokeJob, pruning>>
    /\ EngineFrame

\* Engine.mergeNameRegistryEvent: the user data store merges the transfer
\* or the renewal and the call returns; handleMergeNameRegistryEvent is
\* called with the hub event and, for a transfer with a from address, goes
\* on to look for the fid of the from address.
MergeNameRegistryEvent(event) ==
    /\ MayCall(1)
    /\ Called(1)
    /\ event.type \in {"Transfer", "Renew"}
    /\ mergeNameRegistryEventResult(nameRegistryEvent, event) = "ok"
    /\ nameRegistryEvent' = event
    /\ handlers' =
           IF event.type = "Transfer" /\ event.from # NoAddress
           THEN handlers (+) SetToBag(
                    {HandlerCall("handleMergeNameRegistryEvent", event.from,
                                 "getIdRegistryEventByCustodyAddress")})
           ELSE handlers
    /\ mergeResult' = NoMergeResult
    /\ UNCHANGED <<custodyEvent, stored, revokeSignerQueue,
                   validationWorkerJobId, validationWorkerPromiseMap,
                   validating, validated, revokeJob, pruning>>
    /\ EngineFrame

\* A handler that awaited enqueueJob: the job is in the queue.  The
\* handler of a merged id-registry event goes on to look for the fname of
\* the fid, the handlers of message events return.
HandlerEnqueueJob(h) ==
    /\ BagIn(h, handlers) /\ h.at = "enqueueJob"
    /\ enqueueJobs({h.signer})
    /\ handlers' =
           IF h.handler = "handleMergeIdRegistryEvent"
           THEN (handlers (-) SetToBag({h}))
                    (+) SetToBag({[h EXCEPT !.at = "getUserDataAdd"]})
           ELSE handlers (-) SetToBag({h})
    /\ mergeResult' = NoMergeResult
    /\ UNCHANGED <<custodyEvent, nameRegistryEvent, stored,
                   validationWorkerJobId, validationWorkerPromiseMap,
                   validating, validated, revokeJob, pruning, overlaps>>
    /\ EngineFrame

\* handleMergeNameRegistryEvent after getIdRegistryEventByCustodyAddress:
\* when the from address is the custody address of the fid the handler goes
\* on to look for the fname of the fid, else it returns.
HandlerGetIdRegistryEvent(h) ==
    /\ BagIn(h, handlers) /\ h.at = "getIdRegistryEventByCustodyAddress"
    /\ handlers' =
           IF custodyEvent.type # "none" /\ custodyEvent.to = h.signer
           THEN (handlers (-) SetToBag({h}))
                    (+) SetToBag({[h EXCEPT !.at = "getUserDataAdd"]})
           ELSE handlers (-) SetToBag({h})
    /\ mergeResult' = NoMergeResult
    /\ UNCHANGED <<custodyEvent, nameRegistryEvent, stored, revokeSignerQueue,
                   validationWorkerJobId, validationWorkerPromiseMap,
                   validating, validated, revokeJob, pruning, overlaps>>
    /\ EngineFrame

\* handleMergeIdRegistryEvent and handleMergeNameRegistryEvent after
\* getUserDataAdd(fid, FNAME): no UserDataAdd is among the messages of
\* these runs, the lookup finds none and the handler returns.
HandlerGetUserDataAdd(h) ==
    /\ BagIn(h, handlers) /\ h.at = "getUserDataAdd"
    /\ { m \in stored : m.type = "UserDataAdd" /\ m.key = FNAME } = {}
    /\ handlers' = handlers (-) SetToBag({h})
    /\ mergeResult' = NoMergeResult
    /\ UNCHANGED <<custodyEvent, nameRegistryEvent, stored, revokeSignerQueue,
                   validationWorkerJobId, validationWorkerPromiseMap,
                   validating, validated, revokeJob, pruning, overlaps>>
    /\ EngineFrame

\* Engine.mergeMessage(m) is called: validateMessage waits for the custody
\* event of the fid.  The calls that have not returned are for different
\* messages.
MergeMessage(m) ==
    /\ MayCall(1)
    /\ Called(1)
    /\ ~InFlight(m)
    /\ validating' = validating \cup {validateMessageCall("mergeMessage", m)}
    /\ mergeResult' = NoMergeResult
    /\ UNCHANGED <<custodyEvent, nameRegistryEvent, stored, revokeSignerQueue,
                   validationWorkerJobId, validationWorkerPromiseMap,
                   validated, handlers, revokeJob, pruning>>
    /\ EngineFrame

\* Engine.mergeMessages: a mergeMessage call for each message, all started
\* before any of them goes on; each waits for its own read of the custody
\* event.
MergeMessages(ms) ==
    /\ MayCall(Len(ms))
    /\ Called(Len(ms))
    /\ \A i \in 1..Len(ms) : ~InFlight(ms[i])
    /\ \A i, j \in 1..Len(ms) : ms[i] = ms[j] => i = j
    /\ validating' = validating \cup
           { validateMessageCall("mergeMessage", ms[i]) : i \in 1..Len(ms) }
    /\ mergeResult' = NoMergeResult
    /\ UNCHANGED <<custodyEvent, nameRegistryEvent, stored, revokeSignerQueue,
                   validationWorkerJobId, validationWorkerPromiseMap,
                   validated, handlers, revokeJob, pruning>>
    /\ EngineFrame

\* Engine.validateOrRevokeMessage(m) is called for a stored message:
\* validateMessage waits for the custody event of the fid.
ValidateOrRevokeMessage(m) ==
    /\ MayCall(1)
    /\ Called(1)
    /\ ~InFlight(m)
    /\ m \in stored
    /\ validating' = validating \cup
           {validateMessageCall("validateOrRevokeMessage", m)}
    /\ mergeResult' = NoMergeResult
    /\ UNCHANGED <<custodyEvent, nameRegistryEvent, stored, revokeSignerQueue,
                   validationWorkerJobId, validationWorkerPromiseMap,
                   validated, handlers, revokeJob, pruning>>
    /\ EngineFrame

\* One store of Engine.pruneMessages prunes: its messages over the limit
\* leave it, and handlePruneMessageEvent is called with the hub event of
\* each and, for a SignerAdd, goes on to enqueue a job for its key.  After
\* the last store pruneMessages returns.
pruneStoreAt(i) ==
    LET pruned == storePrune(stored, PruneOrder[i])
    IN  /\ stored' = stored \ pruned
        /\ handlers' = handlers (+) prunedHandlers(pruned)
        /\ pruning' = IF i < Len(PruneOrder) THEN i + 1 ELSE 0
        /\ mergeResult' = NoMergeResult
        /\ UNCHANGED <<custodyEvent, nameRegistryEvent, revokeSignerQueue,
                       validationWorkerJobId, validationWorkerPromiseMap,
                       validating, validated, revokeJob>>
        /\ EngineFrame

\* Engine.pruneMessages(fid) is called: the signer store prunes.
EnginePruneMessages ==
    /\ MayCall(1)
    /\ Called(1)
    /\ pruning = 0
    /\ pruneStoreAt(1)

\* The next store of Engine.pruneMessages prunes.
EnginePruneStore ==
    /\ pruning # 0
    /\ pruneStoreAt(pruning)
    /\ UNCHANGED overlaps

\* validateMessage, step 3: the await of getIdRegistryEvent of the call is
\* over, with the custody event of the fid that is stored at the time.
GetIdRegistryEvent(c) ==
    /\ c \in validating /\ c.at = "validateMessage"
    /\ validating' = (validating \ {c}) \cup
           {[c EXCEPT !.at = "getIdRegistryEvent", !.custodyEvent = custodyEvent]}
    /\ mergeResult' = NoMergeResult
    /\ UNCHANGED <<custodyEvent, nameRegistryEvent, stored, revokeSignerQueue,
                   validationWorkerJobId, validationWorkerPromiseMap,
                   validated, handlers, revokeJob, pruning, overlaps>>
    /\ EngineFrame

\* validateMessage returns an error: the fid had no custody event, the
\* SignerAdd / SignerRemove was not signed by the custody address that was
\* read, or getSignerAdd found no SignerAdd for the signer.  Nothing is
\* posted to the worker.  mergeMessage returns the error and nothing is
\* stored; validateOrRevokeMessage goes on to revoke the message.
RejectMessage(c) ==
    /\ c \in validating
    /\ \/ c.at = "getIdRegistryEvent" /\ validateSigner(c.custodyEvent, c.message) # "ok"
       \/ c.at = "getSignerAdd" /\ c.signerResult # "ok"
    /\ validating' = validating \ {c}
    /\ IF c.op = "mergeMessage"
       THEN /\ mergeResult' = [message |-> c.message,
                               result |-> "bad_request.validation_failure"]
            /\ UNCHANGED validated
       ELSE /\ mergeResult' = NoMergeResult
            /\ validated' = validated \cup
                   {[op |-> c.op, message |-> c.message,
                     result |-> "bad_request.validation_failure", id |-> NoJobId]}
    /\ UNCHANGED <<custodyEvent, nameRegistryEvent, stored, revokeSignerQueue,
                   validationWorkerJobId, validationWorkerPromiseMap,
                   handlers, revokeJob, pruning, overlaps>>
    /\ EngineFrame

\* validateMessage, step 4 of a message that is no SignerAdd / SignerRemove:
\* the signer store looks for the SignerAdd of the signer, for the custody
\* address of the id-registry event that is stored at the time.  Step 5 is
\* for UserDataAdd messages only: the custody event is read no more.
GetSignerAdd(c) ==
    /\ c \in validating /\ c.at = "getIdRegistryEvent"
    /\ validateSigner(c.custodyEvent, c.message) = "ok"
    /\ ~ (isSignerAddMessage(c.message) \/ isSignerRemoveMessage(c.message))
    /\ validating' = (validating \ {c}) \cup
           {[c EXCEPT !.at = "getSignerAdd",
                      !.custodyEvent = NoCustodyEvent,
                      !.signerResult =
                          IF getSignerAdd(stored, custodyEvent, c.message.signer) = {}
                          THEN "not_found" ELSE "ok"]}
    /\ mergeResult' = NoMergeResult
    /\ UNCHANGED <<custodyEvent, nameRegistryEvent, stored, revokeSignerQueue,
                   validationWorkerJobId, validationWorkerPromiseMap,
                   validated, handlers, revokeJob, pruning, overlaps>>
    /\ EngineFrame

\* validateMessage, step 6 of a message that passed the checks on the
\* custody event and the signer.  With a validation worker: a new job id,
\* the promise in the map, the message posted to the worker.  Without one:
\* validations.validateMessage on the main thread, and its answer.
SubmitMessage(c, answer) ==
    /\ c \in validating
    /\ \/ /\ c.at = "getIdRegistryEvent"
          /\ validateSigner(c.custodyEvent, c.message) = "ok"
          /\ isSignerAddMessage(c.message) \/ isSignerRemoveMessage(c.message)
       \/ c.at = "getSignerAdd" /\ c.signerResult = "ok"
    /\ validating' = validating \ {c}
    /\ IF validationWorker
       THEN /\ validationWorkerJobId < MaxJobId
            /\ validationWorkerJobId' = validationWorkerJobId + 1
            /\ validationWorkerPromiseMap' =
                   validationWorkerPromiseMap
                       \cup {<<validationWorkerJobId, c.message, c.op>>}
            /\ UNCHANGED validated
       ELSE /\ validated' = validated \cup
                   {[op |-> c.op, message |-> c.message, result |-> answer,
                     id |-> NoJobId]}
            /\ UNCHANGED <<validationWorkerJobId, validationWorkerPromiseMap>>
    /\ mergeResult' = NoMergeResult
    /\ UNCHANGED <<custodyEvent, nameRegistryEvent, stored, revokeSignerQueue,
                   handlers, revokeJob, pruning, overlaps>>
    /\ EngineFrame

\* The handler of the worker's messages, for the answer to one job id, in
\* any order: the entry leaves the map and the promise is resolved, with
\* the message or with the error of the answer.
WorkerRespond(id, m, answer) ==
    /\ \E e \in validationWorkerPromiseMap :
         /\ e[1] = id /\ e[2] = m
         /\ validationWorkerPromiseMap' = validationWorkerPromiseMap \ {e}
         /\ validated' = validated \cup
                {[op |-> e[3], message |-> m, result |-> answer, id |-> id]}
    /\ mergeResult' = NoMergeResult
    /\ UNCHANGED <<custodyEvent, nameRegistryEvent, stored, revokeSignerQueue,
                   validationWorkerJobId, validating, handlers, revokeJob,
                   pruning, overlaps>>
    /\ EngineFrame

\* mergeMessage after validateMessage: the error of the validation is
\* returned, and so is an error for a message whose type has no store;
\* validateOrRevokeMessage after validateMessage returns ok for a valid
\* message.
ReturnValidationError(v) ==
    /\ v \in validated
    /\ \/ /\ v.op = "mergeMessage"
          /\ v.result # "ok" \/ typeToSetPostfix(v.message.type) = "none"
       \/ v.op = "validateOrRevokeMessage" /\ v.result = "ok"
    /\ validated' = validated \ {v}
    /\ mergeResult' =
           IF v.op # "mergeMessage" THEN NoMergeResult
           ELSE [message |-> v.message,
                 result |-> IF v.result # "ok" THEN v.result
                            ELSE "bad_request.validation_failure"]
    /\ UNCHANGED <<custodyEvent, nameRegistryEvent, stored, revokeSignerQueue,
                   validationWorkerJobId, validationWorkerPromiseMap,
                   validating, handlers, revokeJob, pruning, overlaps>>
    /\ EngineFrame

\* mergeMessage after validateMessage, for a valid message: the merge of
\* the store of its type, whose result is returned; handleMergeMessageEvent
\* is called with the hub event of a merged message and, for a
\* SignerRemove, goes on to enqueue a job for its key.
StoreMerge(v) ==
    /\ v \in validated
    /\ v.op = "mergeMessage"
    /\ v.result = "ok" /\ typeToSetPostfix(v.message.type) # "none"
    /\ validated' = validated \ {v}
    /\ LET out == storeMerge(stored, v.message) IN
         /\ stored' = out.db
         /\ mergeResult' = [message |-> v.message, result |-> out.result]
         /\ handlers' =
                IF out.result = "ok" /\ isSignerRemoveMessage(v.message)
                THEN handlers (+) SetToBag(
                         {HandlerCall("handleMergeMessageEvent", v.message.key,
                                      "enqueueJob")})
                ELSE handlers
    /\ UNCHANGED <<custodyEvent, nameRegistryEvent, revokeSignerQueue,
                   validationWorkerJobId, validationWorkerPromiseMap,
                   validating, revokeJob, pruning, overlaps>>
    /\ EngineFrame

\* The handlers that a store's revoke of the message starts:
\* handleRevokeMessageEvent is called with the hub event and, for a
\* SignerAdd, goes on to enqueue a job for its key.
revokedHandlers(m) ==
    IF isSignerAddMessage(m)
    THEN SetToBag({HandlerCall("handleRevokeMessageEvent", m.key, "enqueueJob")})
    ELSE EmptyBag

\* validateOrRevokeMessage after validateMessage, for a message that is not
\* valid: the store of its type revokes it, stored or not, and the call
\* returns what the store returns; a type without a store is an error.
RevokeInvalid(v) ==
    /\ v \in validated
    /\ v.op = "validateOrRevokeMessage" /\ v.result # "ok"
    /\ validated' = validated \ {v}
    /\ IF typeToSetPostfix(v.message.type) = "none"
       THEN UNCHANGED <<stored, handlers>>
       ELSE /\ stored' = stored \ {v.message}
            /\ handlers' = handlers (+) revokedHandlers(v.message)
    /\ mergeResult' = NoMergeResult
    /\ UNCHANGED <<custodyEvent, nameRegistryEvent, revokeSignerQueue,
                   validationWorkerJobId, validationWorkerPromiseMap,
                   validating, revokeJob, pruning, overlaps>>
    /\ EngineFrame

\* The job worker takes a job off the queue, one at a time, and calls
\* revokeMessagesBySigner: the iterator over the messages of the signer.
RunRevokeJob(signer) ==
    /\ signer \in revokeSignerQueue
    /\ revokeJob = NoRevokeJob
    /\ revokeSignerQueue' = revokeSignerQueue \ {signer}
    /\ revokeJob' = [signer |-> signer,
                     iterator |-> { m \in stored : m.signer = signer },
                     key |-> {},
                     loaded |-> {}]
    /\ mergeResult' = NoMergeResult
    /\ UNCHANGED <<custodyEvent, nameRegistryEvent, stored,
                   validationWorkerJobId, validationWorkerPromiseMap,
                   validating, validated, handlers, pruning, overlaps>>
    /\ EngineFrame

\* revokeMessagesBySigner, the beginning of a turn of its loop: the await
\* of the next key of the iterator is over, with the key of one of the
\* messages that were under the signer when the iterator was opened, and
\* revokeMessageByKey waits for getMessage.
NextKey(m) ==
    /\ revokeJob # NoRevokeJob
    /\ revokeJob.key = {} /\ revokeJob.loaded = {}
    /\ m \in revokeJob.iterator
    /\ revokeJob' = [revokeJob EXCEPT !.key = {m}]
    /\ mergeResult' = NoMergeResult
    /\ UNCHANGED <<custodyEvent, nameRegistryEvent, stored, revokeSignerQueue,
                   validationWorkerJobId, validationWorkerPromiseMap,
                   validating, validated, handlers, pruning, overlaps>>
    /\ EngineFrame

\* The await of getMessage is over, whatever was called in between: the
\* message of the key is loaded; a message that is stored no more is an
\* error that is logged, and the loop waits for the next key.
GetMessage(m) ==
    /\ revokeJob # NoRevokeJob
    /\ revokeJob.key = {m}
    /\ revokeJob' = IF m \in stored
                    THEN [revokeJob EXCEPT !.key = {}, !.loaded = {m}]
                    ELSE [revokeJob EXCEPT !.iterator = @ \ {m}, !.key = {}]
    /\ mergeResult' = NoMergeResult
    /\ UNCHANGED <<custodyEvent, nameRegistryEvent, stored, revokeSignerQueue,
                   validationWorkerJobId, validationWorkerPromiseMap,
                   validating, validated, handlers, pruning, overlaps>>
    /\ EngineFrame

\* The end of the turn: the store of the message that was loaded revokes
\* it, stored or not, and handleRevokeMessageEvent goes on to enqueue a job
\* for the key of a revoked SignerAdd.
RevokeMessageByKey(m) ==
    /\ revokeJob # NoRevokeJob
    /\ revokeJob.loaded = {m}
    /\ revokeJob' = [revokeJob EXCEPT !.iterator = @ \ {m}, !.loaded = {}]
    /\ stored' = stored \ {m}
    /\ handlers' = handlers (+) revokedHandlers(m)
    /\ mergeResult' = NoMergeResult
    /\ UNCHANGED <<custodyEvent, nameRegistryEvent, revokeSignerQueue,
                   validationWorkerJobId, validationWorkerPromiseMap,
                   validating, validated, pruning, overlaps>>
    /\ EngineFrame

\* revokeMessagesBySigner returns ok when the iterator is at its end: the
\* job has run.
FinishRevokeJob ==
    /\ revokeJob # NoRevokeJob
    /\ revokeJob.iterator = {}
    /\ revokeJob.key = {}
    /\ revokeJob' = NoRevokeJob
    /\ mergeResult' = NoMergeResult
    /\ UNCHANGED <<custodyEvent, nameRegistryEvent, stored, revokeSignerQueue,
                   validationWorkerJobId, validationWorkerPromiseMap,
                   validating, validated, handlers, pruning, overlaps>>
    /\ EngineFrame

\* The engine after start(), with a validation worker when the file of the
\* worker exists.  The link store takes no part in the runs of the engine:
\* it is the empty store of one day.
InitEngine ==
    /\ InitStoreVars
    /\ InitSyncVars
    /\ pruneSizeLimit = getDefaultStoreLimit(LimitChangeDay)
    /\ InitEngineStores
    /\ validationWorker \in BOOLEAN

NextEngine ==
    \/ \E event \in IdRegistryEvents : MergeIdRegistryEvent(event)
    \/ \E event \in EngineNameRegistryEvents : MergeNameRegistryEvent(event)
    \/ \E h \in BagToSet(handlers) : HandlerEnqueueJob(h)
    \/ \E h \in BagToSet(handlers) : HandlerGetIdRegistryEvent(h)
    \/ \E h \in BagToSet(handlers) : HandlerGetUserDataAdd(h)
    \/ \E m \in EngineMessages : MergeMessage(m)
    \/ \E m1, m2 \in EngineMessages : MergeMessages(<<m1, m2>>)
    \/ \E m \in EngineMessages : ValidateOrRevokeMessage(m)
    \/ EnginePruneMessages
    \/ EnginePruneStore
    \/ \E c \in validating : GetIdRegistryEvent(c)
    \/ \E c \in validating : RejectMessage(c)
    \/ \E c \in validating : GetSignerAdd(c)
    \/ \E c \in validating, answer \in ValidationAnswers : SubmitMessage(c, answer)
    \/ \E e \in validationWorkerPromiseMap, answer \in ValidationAnswers :
         WorkerRespond(e[1], e[2], answer)
    \/ \E v \in validated : ReturnValidationError(v)
    \/ \E v \in validated : StoreMerge(v)
    \/ \E v \in validated : RevokeInvalid(v)
    \/ \E signer \in Custodies \cup Delegates : RunRevokeJob(signer)
    \/ \E m \in EngineMessages : NextKey(m)
    \/ \E m \in EngineMessages : GetMessage(m)
    \/ \E m \in EngineMessages : RevokeMessageByKey(m)
    \/ FinishRevokeJob

SpecEngine == InitEngine /\ [][NextEngine]_vars

\* The SignerAdd of the key signed by the custody address.
SignerAddBy(custody, k) ==
    [type |-> "SignerAdd", signer |-> custody, key |-> k, timestamp |-> 1]

\* The messages signed by a delegate key that have a store in the engine.
StorableUserMessages ==
    { m \in UserMessages : typeToSetPostfix(m.type) # "none" }

\* An engine in the middle of the history of a fid that goes from A to B
\* and back to A: the fid was registered to A, A added the key, messages
\* signed by the key were merged, the fid was transferred to B, the handler
\* of the Transfer enqueued the job of A and returned, and the mergeMessage
\* call for the SignerAdd of the key signed by B has just returned ok, all
\* before the worker takes the job of A off the queue.  The calls made
\* while something is in progress are counted from this state on.
InitCustodyReturn ==
    /\ InitStoreVars
    /\ InitSyncVars
    /\ pruneSizeLimit = getDefaultStoreLimit(LimitChangeDay)
    /\ custodyEvent = TransferEvent
    /\ nameRegistryEvent = [type |-> "none"]
    /\ \E signed \in (SUBSET StorableUserMessages) \ {{}} :
         stored = { SignerAddBy(c, k) : c \in Custodies, k \in Delegates }
                      \cup signed
    /\ revokeSignerQueue = {CustodyA}
    /\ validationWorkerJobId = 0
    /\ validationWorkerPromiseMap = {}
    /\ \E k \in Delegates :
         mergeResult = [message |-> SignerAddBy(CustodyB, k), result |-> "ok"]
    /\ validating = {}
    /\ validated = {}
    /\ handlers = EmptyBag
    /\ revokeJob = NoRevokeJob
    /\ pruning = 0
    /\ overlaps = 0
    /\ validationWorker \in BOOLEAN

\* The fid goes back to A and the engine is left to its handlers and to its
\* job worker: no other call is made, so that a message leaves the stores
\* only by the work that the Transfer and the jobs in the queue start.
NextCustodyReturn ==
    \/ MergeIdRegistryEvent(TransferBackEvent)
    \/ \E h \in BagToSet(handlers) : HandlerEnqueueJob(h)
    \/ \E h \in BagToSet(handlers) : HandlerGetUserDataAdd(h)
    \/ \E signer \in Custodies \cup Delegates : RunRevokeJob(signer)
    \/ \E m \in EngineMessages : NextKey(m)
    \/ \E m \in EngineMessages : GetMessage(m)
    \/ \E m \in EngineMessages : RevokeMessageByKey(m)
    \/ FinishRevokeJob

SpecCustodyReturn == InitCustodyReturn /\ [][NextCustodyReturn]_vars

(***************************************************************************)
(* Properties of the link store.                                           *)
(***************************************************************************)
\* The database rows after the step.
RowsNext ==
    [primary |-> primary', linkAdds |-> linkAdds', linkRemoves |-> linkRemoves',
     byTarget |-> byTarget']

\* The step is the call merge(m).
MergeStep(m) == lastResult'.op = "merge" /\ lastResult'.message = m

\* The step changes no row and appends no event.
StoreUntouched == RowsNext = RowsNow /\ nextEventId' = nextEventId

\* The stored messages of one body key.
StoredAtKey(db, key) == { s \in db.primary : KeyOf(s) = key }

\* The store is full and the timestamp of m is older than that of every
\* stored message.
OlderThanFullStore(m) ==
    /\ Cardinality(primary) >= pruneSizeLimit * Units
    /\ \A s \in primary : m.timestamp < s.timestamp

\* The outcome of merge(a) and of merge(a) then merge(b), for all messages
\* a and b, on the rows db.
MergeOnce(db) == [a \in Messages |-> merge(db, nextEventId, a)]
MergeTwice(db, once) ==
    [a \in Messages |-> [b \in Messages |-> merge(once[a].rows, nextEventId + 1, b)]]

\* C1: merging a message that is already stored (same hash) fails with
\* bad_request.duplicate, emits no MergeMessage event, and leaves the
\* primary rows, the indices and every query result as they were; for
\* adds and for removes.
C1_DuplicateMerge ==
    [][\A m \in primary :
          MergeStep(m) =>
            /\ lastResult'.result = "bad_request.duplicate"
            /\ lastResult'.events = <<>>
            /\ StoreUntouched
            /\ \A k \in Keys :
                 /\ getLinkAdd(RowsNext, k) = getLinkAdd(RowsNow, k)
                 /\ getLinkRemove(RowsNext, k) = getLinkRemove(RowsNow, k)
            /\ \A t \in Targets :
                 getLinksByTarget(RowsNext, t) = getLinksByTarget(RowsNow, t)]_vars

\* C1 witness: a stored LinkRemove was merged again and rejected as a
\* duplicate, next to a stored LinkAdd.
C1_Witness ==
    /\ lastResult.op = "merge"
    /\ lastResult.result = "bad_request.duplicate"
    /\ lastResult.message \in primary
    /\ lastResult.message.type = "LinkRemove"
    /\ \E a \in primary : a.type = "LinkAdd"

\* C2: for two conflicting messages (same fid and body key), the message
\* stored for the key after both were submitted to merge is the same
\* whichever was merged first. Stated for every two messages of one key
\* from every reachable state of the store.
C2_ConflictOrder ==
    LET once == MergeOnce(RowsNow)
        twice == MergeTwice(RowsNow, once)
    IN  \A m1, m2 \in Messages :
            (m1 # m2 /\ KeyOf(m1) = KeyOf(m2)) =>
                StoredAtKey(twice[m1][m2].rows, KeyOf(m1))
                    = StoredAtKey(twice[m2][m1].rows, KeyOf(m1))

\* C2 witness: a full store with a size limit, and two conflicting messages
\* of one timestamp, a LinkAdd and a LinkRemove with the lower hash, neither
\* stored: merged add first, the remove's merge deletes the add; merged
\* remove first, the add's merge is rejected as a conflict; the remove is
\* stored after both orders.
C2_Witness ==
    /\ pruneSizeLimit = SizedLimit
    /\ Cardinality(primary) >= pruneSizeLimit * Units
    /\ LET once == MergeOnce(RowsNow)
           twice == MergeTwice(RowsNow, once)
       IN  \E m1, m2 \in Messages :
             /\ m1.type = "LinkAdd" /\ m2.type = "LinkRemove"
             /\ KeyOf(m1) = KeyOf(m2)
             /\ m1.timestamp = m2.timestamp /\ m2.hash < m1.hash
             /\ {m1, m2} \cap primary = {}
             /\ once[m1].result = "ok" /\ twice[m1][m2].result = "ok"
             /\ once[m2].result = "ok"
             /\ twice[m2][m1].result = "bad_request.conflict"
             /\ StoredAtKey(twice[m1][m2].rows, KeyOf(m1)) = {m2}
             /\ StoredAtKey(twice[m2][m1].rows, KeyOf(m1)) = {m2}

\* C3: merging the same messages in two different orders gives
\* the same stored messages and indices, also when the size limit makes
\* merges fail with bad_request.prunable.
C3_AsStated ==
    LET once == MergeOnce(RowsNow)
        twice == MergeTwice(RowsNow, once)
    IN  \A m1, m2 \in Messages : twice[m1][m2].rows = twice[m2][m1].rows

\* C4: when the incoming message conflicts with a stored message of a
\* strictly earlier timestamp, the merge succeeds, the stored message's
\* primary row and index rows are deleted, the incoming message is the only
\* message of the key, and exactly one MergeMessage event carries the
\* incoming message and the deleted one; a successful merge without a
\* conflict carries an empty deleted list.
C4_LaterTimestampWins ==
    [][\A m \in Messages :
          MergeStep(m) =>
            LET key == KeyOf(m)
                old == StoredAtKey(RowsNow, key)
            IN  /\ (old # {} /\ \A s \in old : s.timestamp < m.timestamp) =>
                     /\ lastResult'.result = "ok"
                     /\ old \cap primary' = {}
                     /\ StoredAtKey(RowsNext, key) = {m}
                     /\ \A s \in old :
                          /\ linkAdds'[key] # TsHash(s)
                          /\ linkRemoves'[key] # TsHash(s)
                          /\ TargetRow(s) \notin byTarget'
                     /\ getLinkAdd(RowsNext, key) = { x \in {m} : x.type = "LinkAdd" }
                     /\ getLinkRemove(RowsNext, key) = { x \in {m} : x.type = "LinkRemove" }
                     /\ \E s \in old :
                          lastResult'.events = <<MergeEvent(nextEventId, m, <<s>>)>>
                     /\ nextEventId' = nextEventId + 1
                /\ (old = {} /\ lastResult'.result = "ok") =>
                     lastResult'.events = <<MergeEvent(nextEventId, m, <<>>)>>]_vars

\* C4 witness: a message was merged over a stored message of the same key
\* with a strictly earlier timestamp, which the event lists as deleted.
C4_Witness ==
    /\ lastResult.op = "merge" /\ lastResult.result = "ok"
    /\ Len(lastResult.events[1].deletedMessages) = 1
    /\ lastResult.events[1].deletedMessages[1].timestamp < lastResult.message.timestamp
    /\ lastResult.message \in primary

\* Last-write-wins order of two messages of one body key, as the store
\* applies it: a is ahead of b.
Wins(a, b) ==
    \/ a.timestamp > b.timestamp
    \/ a.timestamp = b.timestamp /\ a.type = "LinkRemove" /\ b.type = "LinkAdd"
    \/ a.timestamp = b.timestamp /\ a.type = b.type /\ a.hash > b.hash

\* The step rejects merge(m) with the given error and changes nothing.
Rejected(m, code) ==
    /\ lastResult'.result = code
    /\ lastResult'.events = <<>>
    /\ m \notin primary'
    /\ StoreUntouched

\* The stored messages of m's key with m's timestamp and the given type.
TiedWith(m, type) ==
    { s \in StoredAtKey(RowsNow, KeyOf(m)) : s.timestamp = m.timestamp /\ s.type = type }

\* The step stores m in place of s.
Replaced(m, s) ==
    /\ lastResult'.result = "ok"
    /\ s \notin primary'
    /\ StoredAtKey(RowsNext, KeyOf(m)) = {m}
    /\ getLinkAdd(RowsNext, KeyOf(m)) = { x \in {m} : x.type = "LinkAdd" }
    /\ getLinkRemove(RowsNext, KeyOf(m)) = { x \in {m} : x.type = "LinkRemove" }
    /\ lastResult'.events = <<MergeEvent(nextEventId, m, <<s>>)>>

\* C6: for a LinkAdd and a LinkRemove of the same key and the same
\* timestamp the LinkRemove wins whatever the order of the hashes and
\* whichever is merged first: merging the add after the remove fails with
\* bad_request.conflict, merging the remove after the add succeeds and
\* deletes the add.
C6_RemoveWinsTie ==
    [][\A m \in Messages :
          MergeStep(m) =>
            /\ (m.type = "LinkAdd" /\ TiedWith(m, "LinkRemove") # {}) =>
                 Rejected(m, "bad_request.conflict")
            /\ (m.type = "LinkRemove") =>
                 \A a \in TiedWith(m, "LinkAdd") : Replaced(m, a)]_vars

\* C6 witness: in a full store with a size limit, a LinkRemove was merged
\* after a LinkAdd of the same key and timestamp with a higher hash, and
\* deleted it.
C6_Witness ==
    /\ pruneSizeLimit = SizedLimit
    /\ Cardinality(primary) >= pruneSizeLimit * Units
    /\ lastResult.op = "merge" /\ lastResult.result = "ok"
    /\ lastResult.message.type = "LinkRemove"
    /\ Len(lastResult.events[1].deletedMessages) = 1
    /\ LET a == lastResult.events[1].deletedMessages[1]
       IN  /\ a.type = "LinkAdd"
           /\ a.timestamp = lastResult.message.timestamp
           /\ a.hash > lastResult.message.hash
           /\ a \notin primary

\* C7 as stated: the order is lexicographic on (timestamp, type priority,
\* hash) with ADD above REMOVE: of two conflicting messages of the same
\* timestamp that differ in type, the ADD wins (here: an add that the quota
\* does not reject is merged over the stored remove and deletes it).
C7_AsStated ==
    [][\A m \in Messages :
          (MergeStep(m) /\ m.type = "LinkAdd" /\ ~OlderThanFullStore(m)) =>
              \A r \in TiedWith(m, "LinkRemove") : Replaced(m, r)]_vars

\* C7 amended: the order is lexicographic on (timestamp, type priority,
\* hash) with REMOVE above ADD: of two conflicting messages of the same
\* timestamp that differ in type, the REMOVE wins whatever the hashes. An
\* add is never merged over such a remove, and such a remove is never
\* rejected as conflicting with the add.
C7_RemoveAboveAdd ==
    [][\A m \in Messages :
          MergeStep(m) =>
            /\ \A r \in TiedWith(m, "LinkRemove") :
                 m.type = "LinkAdd" =>
                   /\ lastResult'.result # "ok"
                   /\ r \in primary' /\ m \notin primary'
                   /\ getLinkRemove(RowsNext, KeyOf(m)) = {r}
                   /\ getLinkAdd(RowsNext, KeyOf(m)) = {}
            /\ \A a \in TiedWith(m, "LinkAdd") :
                 m.type = "LinkRemove" =>
                   /\ lastResult'.result # "bad_request.conflict"
                   /\ lastResult'.result = "ok" => (a \notin primary' /\ m \in primary')]_vars

\* C7 witness: a LinkAdd was rejected as conflicting with the stored
\* LinkRemove of the same key and timestamp, whose hash is lower.
C7_Witness ==
    /\ lastResult.op = "merge" /\ lastResult.result = "bad_request.conflict"
    /\ lastResult.message.type = "LinkAdd"
    /\ \E r \in StoredAtKey(RowsNow, KeyOf(lastResult.message)) :
         /\ r.type = "LinkRemove"
         /\ r.timestamp = lastResult.message.timestamp
         /\ r.hash < lastResult.message.hash

\* C8: for two messages of the same type, key and timestamp the higher
\* hash wins: merging the higher after the lower succeeds and deletes the
\* lower, merging the lower after the higher fails with bad_request.conflict
\* and changes nothing.
C8_HigherHashWins ==
    [][\A m \in Messages :
          MergeStep(m) =>
            \A s \in TiedWith(m, m.type) :
              /\ m.hash > s.hash => Replaced(m, s)
              /\ m.hash < s.hash => Rejected(m, "bad_request.conflict")]_vars

\* C8 witness: in a full store with a size limit, a message was merged
\* after a stored message of the same type, key and timestamp with a lower
\* hash, and deleted it.
C8_Witness ==
    /\ pruneSizeLimit = SizedLimit
    /\ Cardinality(primary) >= pruneSizeLimit * Units
    /\ lastResult.op = "merge" /\ lastResult.result = "ok"
    /\ Len(lastResult.events[1].deletedMessages) = 1
    /\ LET s == lastResult.events[1].deletedMessages[1]
       IN  /\ s.type = lastResult.message.type
           /\ s.timestamp = lastResult.message.timestamp
           /\ s.hash < lastResult.message.hash
           /\ s \notin primary

\* The call that the step commits.
StepOp == lastResult'.op

\* C13 as stated: the number of stored messages of the fid is at most the
\* store's limit after every committed merge, revoke or prune.
C13_AsStated == Cardinality(primary) <= StoreLimit

\* C13 amended: the number of stored messages is at most the store's limit
\* after every committed pruneMessages. A merge adds at most one message and
\* never one that is older than every message of a full store, but it does
\* store a newer message in a full store, so that the count exceeds the
\* limit until the next pruneMessages; a revoke never increases the count.
C13_WithinLimitAfterPrune ==
    [][/\ StepOp = "pruneMessages" => Cardinality(primary') <= StoreLimit
       /\ StepOp = "revoke" => Cardinality(primary') <= Cardinality(primary)
       /\ StepOp = "merge" =>
            /\ Cardinality(primary') <= Cardinality(primary) + 1
            /\ \A m \in primary' \ primary : ~OlderThanFullStore(m)]_vars

\* C13 witness: pruneMessages on a store that held more messages than its
\* limit has brought the count down to the limit.
C13_Witness ==
    /\ lastResult.op = "pruneMessages"
    /\ Len(lastResult.events) >= 1
    /\ pruneSizeLimit = SizedLimit
    /\ Cardinality(primary) = StoreLimit

\* a has a smaller timestamp-hash than b.
Earlier(a, b) ==
    \/ a.timestamp < b.timestamp
    \/ a.timestamp = b.timestamp /\ a.hash < b.hash

\* The message is readable in the rows db: by its primary key, and by the
\* query of its type at its body key.
Readable(db, m) ==
    /\ getMessage(db, TsHash(m)) = {m}
    /\ m.type = "LinkAdd" =>
         /\ getLinkAdd(db, KeyOf(m)) = {m}
         /\ m \in getLinksByTarget(db, m.targetFid)
    /\ m.type = "LinkRemove" => getLinkRemove(db, KeyOf(m)) = {m}

\* The message is returned by no query on the rows db.
Unreadable(db, m) ==
    /\ getMessage(db, TsHash(m)) = {}
    /\ m \notin getLinkAdd(db, KeyOf(m))
    /\ m \notin getLinkRemove(db, KeyOf(m))
    /\ m \notin getLinksByTarget(db, m.targetFid)

\* C14: pruneMessages on a store with size limit L that holds n messages of
\* the fid, adds and removes counted together, removes exactly the
\* max(n - L, 0) messages with the smallest timestamp-hash, returns one new
\* event id and emits one PruneMessage event per removed message, in
\* ascending timestamp-hash order, and leaves the other messages readable;
\* when n <= L it removes nothing and emits nothing. Stated of the call in
\* every reachable state of the store.
C14_PruneRemovesEarliest ==
    LET out == pruneMessages(RowsNow, nextEventId)
        n == Cardinality(primary)
        L == pruneSizeLimit * Units
        k == IF n > L THEN n - L ELSE 0
        kept == out.rows.primary
        removed == primary \ kept
    IN  /\ out.result = "ok"
        /\ kept \subseteq primary
        /\ Cardinality(removed) = k
        /\ \A r \in removed : \A q \in kept : Earlier(r, q)
        /\ Len(out.events) = k
        /\ \A i \in 1..Len(out.events) :
             /\ out.events[i].type = "PruneMessage"
             /\ out.events[i].id = nextEventId + i - 1
             /\ out.events[i].message \in removed
             /\ \A j \in 1..Len(out.events) :
                  i < j => Earlier(out.events[i].message, out.events[j].message)
        /\ \A q \in kept : Readable(out.rows, q)
        /\ \A r \in removed : Unreadable(out.rows, r)
        /\ n <= L => (out.rows = RowsNow /\ out.events = <<>>)

\* C14 witness: a store with a size limit holds at least two messages more
\* than the limit, adds and removes among them, and pruneMessages removes
\* an add and a remove and keeps a message.
C14_Witness ==
    /\ pruneSizeLimit = SizedLimit
    /\ Cardinality(primary) >= pruneSizeLimit * Units + 2
    /\ LET out == pruneMessages(RowsNow, nextEventId)
           removed == primary \ out.rows.primary
       IN  /\ Len(out.events) >= 2
           /\ \E a, r \in removed : a.type = "LinkAdd" /\ r.type = "LinkRemove"
           /\ out.rows.primary # {}

\* The store holds at least as many messages as its limit.
StoreFull == primary # {} /\ Cardinality(primary) >= pruneSizeLimit * Units

\* The timestamp of m is before / after that of the earliest stored message.
OlderThanEarliest(m) == \A q \in primary : m.timestamp < q.timestamp
NewerThanEarliest(m) == \E q \in primary : q.timestamp < m.timestamp

\* The step stores m.
Accepted(m) == lastResult'.result = "ok" /\ m \in primary'

\* C15 as stated: in a full store, merging a message with a timestamp older
\* than the earliest stored message fails with bad_request.prunable and
\* changes nothing, and a message newer than the earliest stored one (and
\* not stored yet) is accepted.
C15_AsStated ==
    [][\A m \in Messages :
          (MergeStep(m) /\ StoreFull) =>
              /\ OlderThanEarliest(m) => Rejected(m, "bad_request.prunable")
              /\ (NewerThanEarliest(m) /\ m \notin primary) => Accepted(m)]_vars

\* C15 amended: in a full store, merging a message with a timestamp older
\* than the earliest stored message fails with bad_request.prunable and
\* changes nothing; a message newer than the earliest stored one is not
\* rejected by the quota: it is rejected as a duplicate when it is stored
\* already, as a conflict when a stored message of its key is ahead of it,
\* and accepted otherwise.
C15_PrunableRejected ==
    [][\A m \in Messages :
          (MergeStep(m) /\ StoreFull) =>
              /\ OlderThanEarliest(m) => Rejected(m, "bad_request.prunable")
              /\ NewerThanEarliest(m) =>
                    IF m \in primary
                    THEN lastResult'.result = "bad_request.duplicate" /\ StoreUntouched
                    ELSE IF \E q \in StoredAtKey(RowsNow, KeyOf(m)) : Wins(q, m)
                    THEN Rejected(m, "bad_request.conflict")
                    ELSE Accepted(m)]_vars

\* C15 witness: a store with a size limit took a newer message while full,
\* holds more messages than its limit, and rejected a message older than all
\* of them as prunable.
C15_Witness ==
    /\ lastResult.op = "merge"
    /\ lastResult.result = "bad_request.prunable"
    /\ pruneSizeLimit = SizedLimit
    /\ Cardinality(primary) > pruneSizeLimit * Units
    /\ \A q \in primary : lastResult.message.timestamp < q.timestamp

\* The step is the call revoke(m).
RevokeStep(m) == lastResult'.op = "revoke" /\ lastResult'.message = m

\* A database without link rows.
EmptyRows ==
    [primary |-> {}, linkAdds |-> [k \in Keys |-> NoRow],
     linkRemoves |-> [k \in Keys |-> NoRow], byTarget |-> {}]

\* C16: revoking a merged message deletes its primary row and every index
\* row derived from it and nothing else, makes it unreadable through every
\* query, and emits exactly one RevokeMessage event carrying the message;
\* when it was the only link stored, no link row is left in the database.
C16_RevokeDeletesAllRows ==
    [][\A m \in primary :
          RevokeStep(m) =>
              /\ lastResult'.result = "ok"
              /\ primary' = primary \ {m}
              /\ linkAdds'[KeyOf(m)] # TsHash(m)
              /\ linkRemoves'[KeyOf(m)] # TsHash(m)
              /\ TargetRow(m) \notin byTarget'
              /\ Unreadable(RowsNext, m)
              /\ \A q \in primary' : Readable(RowsNext, q)
              /\ lastResult'.events = <<RevokeEvent(nextEventId, m)>>
              /\ nextEventId' = nextEventId + 1
              /\ primary = {m} => RowsNext = EmptyRows]_vars

\* C16 witness: after one merge and the revoke of a message, two hub events
\* have been written, the revoke emitted one RevokeMessage event with its
\* message, and no link row is left.
C16_Witness ==
    /\ lastResult.op = "revoke"
    /\ lastResult.result = "ok"
    /\ lastResult.events = <<RevokeEvent(2, lastResult.message)>>
    /\ lastResult.message.type = "LinkAdd"
    /\ nextEventId = 3
    /\ RowsNow = EmptyRows

\* C17: revoking a message that is not stored (never merged, or no longer
\* stored) returns ok, leaves every stored message and every index row
\* unchanged, and the message stays unreadable; the call still takes a new
\* event id and emits one RevokeMessage event carrying the message.
C17_RevokeUnmerged ==
    [][\A m \in Messages \ primary :
          RevokeStep(m) =>
              /\ lastResult'.result = "ok"
              /\ RowsNext = RowsNow
              /\ Unreadable(RowsNext, m)
              /\ \A q \in primary : Readable(RowsNext, q)
              /\ Len(lastResult'.events) = 1
              /\ lastResult'.events[1].type = "RevokeMessage"
              /\ lastResult'.events[1].message = m
              /\ lastResult'.events[1].id = nextEventId
              /\ nextEventId' = nextEventId + 1]_vars

\* C17 witness: a message that is not stored was revoked next to a stored
\* message of its body key, which is still there; the revoke is the second
\* event after the merge of the stored message.
C17_Witness ==
    /\ lastResult.op = "revoke"
    /\ lastResult.result = "ok"
    /\ nextEventId = 3
    /\ Len(lastResult.events) = 1
    /\ lastResult.events[1].id = 2
    /\ lastResult.events[1].message = lastResult.message
    /\ \E q \in primary :
         /\ KeyOf(q) = KeyOf(lastResult.message)
         /\ q # lastResult.message
         /\ Readable(RowsNow, q)

\* The events that the step appends to the log.
NewEvents == SubSeq(hubEvents', Len(hubEvents) + 1, Len(hubEvents'))

\* The ids of a sequence of events are strictly increasing.
Ascending(events) ==
    \A i, j \in 1..Len(events) : i < j => events[i].id < events[j].id

\* The events API, asked from fromEventId, returns in ascending id order
\* exactly the logged events with an id from fromEventId on.
PageFrom(log, fromEventId) ==
    LET page == getHubEvents(log, fromEventId) IN
    /\ Ascending(page)
    /\ \A i \in 1..Len(page) :
         page[i].id >= fromEventId /\ \E j \in 1..Len(log) : log[j] = page[i]
    /\ \A j \in 1..Len(log) :
         log[j].id >= fromEventId => \E i \in 1..Len(page) : page[i] = log[j]

\* C18: event ids are strictly increasing in commit order: the log only
\* grows, and every new event has an id above all earlier ones. A
\* successful merge appends exactly one MergeMessage event, a failed merge
\* none, a revoke exactly one RevokeMessage event, and pruneMessages exactly
\* one PruneMessage event for each message it prunes. The events API
\* returns the events in ascending id order starting at the requested
\* fromEventId, and no event when asked from the id after the last one.
C18_EventIdsIncrease ==
    [][/\ SubSeq(hubEvents', 1, Len(hubEvents)) = hubEvents
       /\ Ascending(hubEvents')
       /\ \A i \in 1..Len(NewEvents) : NewEvents[i].id >= nextEventId
       /\ StepOp = "merge" =>
            IF lastResult'.result = "ok"
            THEN Len(NewEvents) = 1 /\ NewEvents[1].type = "MergeMessage"
            ELSE NewEvents = <<>>
       /\ StepOp = "revoke" =>
            Len(NewEvents) = 1 /\ NewEvents[1].type = "RevokeMessage"
       /\ StepOp = "pruneMessages" =>
            /\ Len(NewEvents) = Cardinality(primary \ primary')
            /\ \A i \in 1..Len(NewEvents) : NewEvents[i].type = "PruneMessage"
       /\ \A fromEventId \in 0..(MaxEventId + 1) :
            PageFrom(hubEvents', fromEventId)
       /\ hubEvents' # <<>> =>
            getHubEvents(hubEvents', hubEvents'[Len(hubEvents')].id + 1) = <<>>]_vars

\* C18 witness: the log holds a MergeMessage, a PruneMessage and a
\* RevokeMessage event, the last call was a merge that failed, and the page
\* from the id of the last event holds that event alone.
C18_Witness ==
    /\ { hubEvents[i].type : i \in 1..Len(hubEvents) }
         = {"MergeMessage", "PruneMessage", "RevokeMessage"}
    /\ lastResult.op = "merge"
    /\ lastResult.result # "ok"
    /\ getHubEvents(hubEvents, hubEvents[Len(hubEvents)].id)
         = <<hubEvents[Len(hubEvents)]>>
    /\ Len(getHubEvents(hubEvents, 2)) = Len(hubEvents) - 1

\* C19: after any sequence of merge, revoke and pruneMessages every index
\* row points at a message whose primary row exists: an adds row at a stored
\* LinkAdd of its key, a removes row at a stored LinkRemove of its key, a
\* by-target row at a stored LinkAdd to that target. For each body key at
\* most one of getLinkAdd and getLinkRemove succeeds, and getLinksByTarget
\* returns exactly the stored LinkAdds to the target.
C19_IndexRowsHavePrimary ==
    /\ \A k \in Keys :
         /\ linkAdds[k] # NoRow =>
              \E m \in primary :
                  TsHash(m) = linkAdds[k] /\ m.type = "LinkAdd" /\ KeyOf(m) = k
         /\ linkRemoves[k] # NoRow =>
              \E m \in primary :
                  TsHash(m) = linkRemoves[k] /\ m.type = "LinkRemove" /\ KeyOf(m) = k
         /\ getLinkAdd(RowsNow, k) = {} \/ getLinkRemove(RowsNow, k) = {}
    /\ \A row \in byTarget :
         \E m \in primary : m.type = "LinkAdd" /\ TargetRow(m) = row
    /\ \A t \in AllTargets :
         getLinksByTarget(RowsNow, t)
             = { m \in primary : m.type = "LinkAdd" /\ m.targetFid = t }

\* C19 witness: four events have been committed and two messages are left,
\* a LinkAdd and a LinkRemove to the same target (the other events
\* superseded, revoked or pruned a message); getLinksByTarget returns the
\* LinkAdd alone.
C19_Witness ==
    /\ nextEventId = 5
    /\ \E a, r \in primary :
         /\ primary = {a, r}
         /\ a.type = "LinkAdd" /\ r.type = "LinkRemove"
         /\ a.targetFid = r.targetFid
         /\ getLinksByTarget(RowsNow, a.targetFid) = {a}
         /\ getLinkRemove(RowsNow, KeyOf(r)) = {r}
         /\ getLinkAdd(RowsNow, KeyOf(r)) = {}

\* The stored messages of m's body key that are indexed under the legacy
\* key.
LegacyAtKey(m) ==
    { q \in primary : KeyOf(q) = KeyOf(m) /\ LegacyRow(q) \in legacyRows }

\* The padded index row of the message's type and body key points at it.
PaddedRow(adds, removes, m) ==
    IF m.type = "LinkAdd" THEN adds[KeyOf(m)] = TsHash(m)
    ELSE removes[KeyOf(m)] = TsHash(m)

\* C20: a merge that finds a message of its body key indexed under the
\* legacy key resolves the conflict against that message. When the legacy
\* message loses, the one transaction of the merge deletes the legacy index
\* row and the primary row of that message and writes the incoming message
\* under the padded key, so that no legacy row of the key exists afterwards;
\* when the legacy message wins, the merge is rejected as a conflict and
\* nothing changes.
C20_LegacyKeyMigrated ==
    [][\A m \in Messages :
          MergeStep(m) =>
            \A q \in LegacyAtKey(m) :
              /\ Wins(m, q) =>
                   /\ lastResult'.result = "ok"
                   /\ q \notin primary'
                   /\ { r \in legacyRows' : r.key = KeyOf(m) } = {}
                   /\ m \in primary'
                   /\ PaddedRow(linkAdds', linkRemoves', m)
                   /\ Readable(RowsNext, m)
                   /\ Len(lastResult'.events) = 1
                   /\ lastResult'.events[1].deletedMessages = <<q>>
              /\ Wins(q, m) =>
                   /\ Rejected(m, "bad_request.conflict")
                   /\ legacyRows' = legacyRows]_vars

\* C20 witness: the first merge on a database that held a LinkAdd under the
\* legacy key was a later LinkRemove of the same body: it deleted the
\* LinkAdd, no legacy row of the key is left, and the LinkRemove is stored
\* under the padded key.
C20_Witness ==
    /\ lastResult.op = "merge" /\ lastResult.result = "ok"
    /\ nextEventId = 2
    /\ Len(lastResult.events[1].deletedMessages) = 1
    /\ LET m == lastResult.message
           q == lastResult.events[1].deletedMessages[1]
       IN  /\ q.type = "LinkAdd" /\ m.type = "LinkRemove"
           /\ q.timestamp < m.timestamp
           /\ q \notin primary
           /\ { r \in legacyRows : r.key = KeyOf(m) } = {}
           /\ getLinkRemove(RowsNow, KeyOf(m)) = {m}

\* The rows db with every legacy row written under the canonical key.
WrittenPadded(db, legacy) ==
    LET rows(type, k) == { r \in legacy : r.type = type /\ r.key = k }
        put(index, type) ==
            [k \in Keys |-> IF rows(type, k) = {} THEN index[k]
                            ELSE (CHOOSE r \in rows(type, k) : TRUE).tsHash]
    IN  [primary |-> db.primary, linkAdds |-> put(db.linkAdds, "LinkAdd"),
         linkRemoves |-> put(db.linkRemoves, "LinkRemove"), byTarget |-> db.byTarget]

\* The reader of the message's type returns it at its body key.
ReadAtKey(db, legacy, m) ==
    IF m.type = "LinkAdd" THEN getLinkAddWithLegacy(db, legacy, KeyOf(m)) = {m}
    ELSE getLinkRemoveWithLegacy(db, legacy, KeyOf(m)) = {m}

\* C21: after every step, getLinkAdd and getLinkRemove return the stored
\* message whose index row exists only under the legacy key, and every read
\* gives what it would give had the legacy rows been written under the
\* canonical key. A merge of a message of a link type of the full width
\* resolves against the stored message of its body by the same order as for
\* shorter types: the later message replaces the stored one, the earlier is
\* rejected as a conflict.
C21_LegacyKeyRead ==
    [][/\ \A r \in legacyRows' :
            \E m \in primary' :
                /\ LegacyRow(m) = r
                /\ ReadAtKey(RowsNext, legacyRows', m)
       /\ \A k \in Keys :
            /\ getLinkAddWithLegacy(RowsNext, legacyRows', k)
                 = getLinkAdd(WrittenPadded(RowsNext, legacyRows'), k)
            /\ getLinkRemoveWithLegacy(RowsNext, legacyRows', k)
                 = getLinkRemove(WrittenPadded(RowsNext, legacyRows'), k)
       /\ \A m \in PaddingMessages :
            m.linkType \in MaxWidthTypes /\ MergeStep(m) =>
              \A q \in StoredAtKey(RowsNow, KeyOf(m)) :
                /\ Wins(m, q) =>
                     /\ lastResult'.result = "ok"
                     /\ q \notin primary'
                     /\ ReadAtKey(RowsNext, legacyRows', m)
                     /\ lastResult'.events[1].deletedMessages = <<q>>
                /\ Wins(q, m) => Rejected(m, "bad_request.conflict")]_vars

\* C21 witness: a LinkAdd of the short type is indexed under the legacy key
\* only and getLinkAdd returns it, while the last merge, of a LinkAdd of the
\* full-width type, replaced the earlier LinkAdd of its body.
C21_Witness ==
    /\ \E a \in primary :
         /\ a.type = "LinkAdd" /\ a.linkType = "follow"
         /\ LegacyRow(a) \in legacyRows
         /\ linkAdds[KeyOf(a)] = NoRow
         /\ getLinkAddWithLegacy(RowsNow, legacyRows, KeyOf(a)) = {a}
    /\ lastResult.op = "merge" /\ lastResult.result = "ok"
    /\ lastResult.message.linkType \in MaxWidthTypes
    /\ lastResult.message.type = "LinkAdd"
    /\ Len(lastResult.events[1].deletedMessages) = 1
    /\ lastResult.events[1].deletedMessages[1].type = "LinkAdd"
    /\ getLinkAddWithLegacy(RowsNow, legacyRows, KeyOf(lastResult.message))
         = {lastResult.message}

\* The hash of the node at prefix p of the trie that holds exactly the
\* given SyncIds.
RECURSIVE HashUnder(_, _)
HashUnder(syncIds, p) ==
    IF Len(p) = SyncIdLength THEN p
    ELSE LET d == Len(p) + 1
             below == { id \in syncIds : SubSeq(id, 1, Len(p)) = p }
         IN  { <<s, HashUnder(syncIds, Append(p, s))>> : s \in { id[d] : id \in below } }

\* C22: in every state, the SyncIds enumerated from the trie are those of
\* the stored primary rows, getAllMessagesBySyncIds on them returns the
\* stored messages, and the root hash is the hash of the trie that holds
\* exactly that set of SyncIds: it depends on the set only, not on the
\* operations that led to it.
C22_TrieMatchesStore ==
    LET ids == { SyncId(m) : m \in primary } IN
    /\ getAllSyncIdsByPrefix(syncTrie, <<>>) = ids
    /\ getAllMessagesBySyncIds(RowsNow, getAllSyncIdsByPrefix(syncTrie, <<>>)) = primary
    /\ rootHash(syncTrie) = HashUnder(ids, <<>>)

\* C22 witness: after a merge that deleted a message, a revoke and a prune
\* (four events at least), two messages are stored and enumerated.
C22_Witness ==
    /\ nextEventId >= 5
    /\ Cardinality(primary) = 2
    /\ getAllSyncIdsByPrefix(syncTrie, <<>>) = { SyncId(m) : m \in primary }
    /\ \E a, b \in primary : a # b /\ a.timestamp = b.timestamp

\* The messages an engine holds.
Holding(engine) == engine.castAdds \cup engine.castDeletes \cup engine.reactions

\* The engine after it is given one message.
Given(engine, m) ==
    IF m.kind = "Reaction" THEN addReaction(engine, m) ELSE addCast(engine, m)

\* C23: from every state of two nodes, when one node syncs with the other
\* and then the other with it, both engines are equal, each holds every
\* message the other held that its engine accepts (when both had the same
\* root and no cast was deleted: the union of the two sets), and a further
\* sync in either direction transfers nothing and changes nothing.
C23_SyncConverges ==
    \A n, p \in InstanceNames :
      n # p =>
        LET a == syncUserWithPeer(nodes[n], nodes[p])
            b == syncUserWithPeer(nodes[p], a.engine)
            again == syncUserWithPeer(a.engine, b.engine)
            back == syncUserWithPeer(b.engine, a.engine)
        IN  /\ a.engine = b.engine
            /\ \A m \in Holding(nodes[p]) : Given(a.engine, m) = a.engine
            /\ \A m \in Holding(a.engine) : Given(b.engine, m) = b.engine
            /\ ( /\ nodes[n].root = nodes[p].root
                 /\ nodes[n].castDeletes = {} /\ nodes[p].castDeletes = {} )
               => Holding(a.engine) = Holding(nodes[n]) \cup Holding(nodes[p])
            /\ again.transferred = {} /\ again.engine = a.engine
            /\ back.transferred = {} /\ back.engine = b.engine

\* C23 witness: both nodes hold the three casts and no delete; the last
\* sync brought exactly one cast to the node that lacked it.
C23_Witness ==
    /\ \A n \in InstanceNames :
         nodes[n].castAdds = CastAdds /\ nodes[n].castDeletes = {}
    /\ lastSync.self = "Friar" /\ lastSync.peer = "Cook"
    /\ Cardinality(lastSync.transferred) = 1
    /\ lastSync.transferred \subseteq CastAdds

\* The messages of the pages read by following the tokens from a first page,
\* over at most `pages` pages.
RECURSIVE FollowTokens(_, _, _, _)
FollowTokens(rows, matching, pageOptions, pages) ==
    LET page == getMessagesPage(rows, matching, pageOptions) IN
    IF page.nextPageToken = NoToken \/ pages = 1 THEN page.messages
    ELSE page.messages
           \o FollowTokens(rows, matching,
                           [pageOptions EXCEPT !.pageToken = page.nextPageToken],
                           pages - 1)

\* The sequence holds each message of the set once, in ascending tsHash
\* order, or in descending order when reverse is set.
InKeyOrder(messages, matching, reverse) ==
    /\ SeqRange(messages) = matching
    /\ Len(messages) = Cardinality(matching)
    /\ \A i, j \in 1..Len(messages) :
         i < j => bytesCompare(TsHash(messages[i]), TsHash(messages[j]))
                    = (IF reverse THEN 1 ELSE -1)

\* The claim of C24 for one read: rows, the matching messages among them.
PagesAgree(rows, matching) ==
    \A o \in PageOptions :
      LET unpaged == getMessagesPage(rows, matching,
                                     [o EXCEPT !.pageSize = DefaultPageSize])
          paged == FollowTokens(rows, matching, o, Len(rows) + 2)
      IN  /\ unpaged.nextPageToken = NoToken
          /\ InKeyOrder(unpaged.messages, matching, o.reverse)
          /\ paged = unpaged.messages

\* C24: in every state, whatever the order of the merges that led to it,
\* for getLinkAddsByFid and for getLinksByTarget of each target, every page
\* size and both directions: the unpaged read returns each matching message
\* once, ascending by tsHash (descending when reverse is set), and the
\* pages read by following nextPageToken until it is empty hold the same
\* messages in the same order.
C24_PagesCoverInOrder ==
    /\ PagesAgree(SortedByTsHash(primary), { m \in primary : m.type = "LinkAdd" })
    /\ \A tg \in AllTargets :
         PagesAgree(SortedByTsHash(getLinksByTarget(RowsNow, tg)),
                    getLinksByTarget(RowsNow, tg))

\* C24 witness: three LinkAdds are stored and the client has just read the
\* second page of size one of getLinkAddsByFid, which holds the second
\* LinkAdd in key order and carries a token.
C24_Witness ==
    /\ lastResult.op = "getLinkAddsByFid"
    /\ lastResult.pageOptions.pageSize = 1
    /\ ~lastResult.pageOptions.reverse
    /\ lastResult.pageOptions.pageToken # NoToken
    /\ lastResult.page = getLinkAddsByFid(RowsNow, lastResult.pageOptions)
    /\ lastResult.page.nextPageToken # NoToken
    /\ LET adds == SortedByTsHash({ m \in primary : m.type = "LinkAdd" }) IN
         /\ Len(adds) = 3
         /\ lastResult.page.messages = <<adds[2]>>
         /\ lastResult.pageOptions.pageToken = TsHash(adds[1])

(***************************************************************************)
(* The engine over several fids: the custody event of each fid, the        *)
(* name-registry event of one fname, the messages of all stores, and the   *)
(* queue of revoke-by-signer jobs.  A call of the engine is a step for    *)
(* each read or write of the database it waits for; the handlers of the    *)
(* events that the stores emit run by themselves, step by step; message    *)
(* validation runs without the worker.                                     *)
(***************************************************************************)
CustodyC == "C"
HubNetwork == "TESTNET"
OtherNetwork == "MAINNET"
TheFname == "alice"

HubMessage(fid, type, signer, key, value, timestamp, network) ==
    [fid |-> fid, type |-> type, signer |-> signer, key |-> key, value |-> value,
     timestamp |-> timestamp, network |-> network]

\* fid 1: the key S added by custody A; two casts, the fname and a link
\* signed by S; a cast of another network.
\* fid 2: the key S added by custody C.
HubMessages ==
    { HubMessage(1, "SignerAdd", CustodyA, "S", "", 1, HubNetwork),
      HubMessage(1, "CastAdd", "S", NoAddress, "", 1, HubNetwork),
      HubMessage(1, "CastAdd", "S", NoAddress, "", 2, HubNetwork),
      HubMessage(1, "CastAdd", "S", NoAddress, "", 2, OtherNetwork),
      HubMessage(1, "UserDataAdd", "S", FNAME, TheFname, 1, HubNetwork),
      HubMessage(1, "LinkAdd", "S", NoAddress, "", 1, HubNetwork),
      HubMessage(2, "SignerAdd", CustodyC, "S", "", 1, HubNetwork) }

\* The id-registry events: fid 1 registered to A and transferred to B, fid 2
\* registered to C.
HubIdRegistryEvents ==
    { [fid |-> 1, type |-> "Register", from |-> NoAddress, to |-> CustodyA,
       blockNumber |-> 1],
      [fid |-> 1, type |-> "Transfer", from |-> CustodyA, to |-> CustodyB,
       blockNumber |-> 2],
      [fid |-> 2, type |-> "Register", from |-> NoAddress, to |-> CustodyC,
       blockNumber |-> 1] }

\* The name-registry events of the fname: minted to A, renewed, and
\* transferred from A to C.  A is the custody address of fid 1 after its
\* Register and of no fid before it and after its Transfer.
NameRegistryEvents ==
    { [type |-> "Transfer", from |-> NoAddress, to |-> CustodyA, blockNumber |-> 1],
      [type |-> "Renew", from |-> NoAddress, to |-> CustodyA, blockNumber |-> 2],
      [type |-> "Transfer", from |-> CustodyA, to |-> CustodyC, blockNumber |-> 3] }

\* The fids that pruneMessages is called for: the fid with more messages
\* than a store keeps.
PruneFids == {1}

UserPostfix ==
    {"SignerMessage", "CastMessage", "ReactionMessage", "VerificationMessage",
     "UserDataMessage"}

\* The database of the engine.
HubDb ==
    [custody |-> hub.custody, nameEvent |-> hub.nameEvent,
     messages |-> hub.messages, jobs |-> hub.jobs]

NoHubMessage == HubMessage(0, "none", NoAddress, NoAddress, "", 0, HubNetwork)
NoHubEvent == [type |-> "none"]

\* A call of validateMessage that waits: for what it waits, and what it has
\* read and still uses.
HubValidation(op, m, at, custody, name, result) ==
    [op |-> op, message |-> m, at |-> at, custodyEvent |-> custody,
     nameEvent |-> name, result |-> result]

\* A handler of a store event that waits.
HubHandler(handler, fid, signer, at, m) ==
    [handler |-> handler, fid |-> fid, signer |-> signer, at |-> at, message |-> m]

\* What a call returns, with the messages it revoked and those it failed on.
HubReturn(op, arg, result, revoked, failed) ==
    [op |-> op, arg |-> arg, result |-> result, revoked |-> revoked,
     failed |-> failed]

\* The calls, handlers and jobs in progress.
HubInProgress ==
    Cardinality(hub.calls) + BagCardinality(hub.handlers) + Cardinality(hub.prunes)
        + Cardinality(hub.jobs) + (IF hub.job # NoHubJob THEN 1 ELSE 0)

\* A call for the message is in progress.
HubInFlight(m) == \E c \in hub.calls : c.message = m

\* n calls can be made.
HubMayCall(n) ==
    /\ HubInProgress + n <= MaxCalls
    /\ HubInProgress + n > 1 => hub.overlaps < MaxOverlaps

\* The database d when the n calls that led to it have been made.
HubCalled(d, n) ==
    [d EXCEPT !.overlaps = IF HubInProgress + n > 1 THEN @ + 1 ELSE @]

getIdRegistryEvent(d, fid) == d.custody[fid]

\* The fids whose id-registry event names the address as custody address.
getIdRegistryEventByCustodyAddress(d, address) ==
    { f \in HubFids : d.custody[f].type # "none" /\ d.custody[f].to = address }

\* UserDataStore.getUserDataAdd(fid, type): the empty set when there is none.
getUserDataAdd(d, fid, type) ==
    { m \in d.messages : m.fid = fid /\ m.type = "UserDataAdd" /\ m.key = type }

\* The messages under the prefix (fid, by-signer index, signer).
getMessagesBySignerIterator(d, fid, signer) ==
    { m \in d.messages : m.fid = fid /\ m.signer = signer }

\* The database d after a step in which the queue or a store fails or
\* does not fail.
Failing(d, fails) == IF fails THEN [d EXCEPT !.failures = @ + 1] ELSE d

\* The step may fail.
MayFail(fails) == fails => hub.failures < MaxFailures

\* RevokeMessagesBySignerJobQueue.enqueueJob.
enqueueJob(d, fid, signer) == [d EXCEPT !.jobs = @ \cup {<<fid, signer>>}]

\* Engine.handleMergeMessageEvent up to its await: the handlers that wait
\* for enqueueJob.
handleMergeMessageEvent(m) ==
    IF isSignerRemoveMessage(m)
    THEN {HubHandler("handleMergeMessageEvent", m.fid, m.key, "enqueueJob",
                     NoHubMessage)}
    ELSE {}

\* Engine.handlePruneMessageEvent up to its await.
handlePruneMessageEvent(m) ==
    IF isSignerAddMessage(m)
    THEN {HubHandler("handlePruneMessageEvent", m.fid, m.key, "enqueueJob",
                     NoHubMessage)}
    ELSE {}

\* Engine.handleRevokeMessageEvent up to its await.
handleRevokeMessageEvent(m) ==
    IF isSignerAddMessage(m)
    THEN {HubHandler("handleRevokeMessageEvent", m.fid, m.key, "enqueueJob",
                     NoHubMessage)}
    ELSE {}

\* Engine.handleMergeIdRegistryEvent up to its first await: with a from
\* address, the handler waits for enqueueJob.
handleMergeIdRegistryEvent(event) ==
    IF event.from # NoAddress
    THEN {HubHandler("handleMergeIdRegistryEvent", event.fid, event.from,
                     "enqueueJob", NoHubMessage)}
    ELSE {}

\* Variant: the handler looks for the fname whatever the type and the from
\* address of the event.
handleMergeNameRegistryEvent_AnyEvent(event) ==
    {HubHandler("handleMergeNameRegistryEvent", 0, CustodyA,
                "getIdRegistryEventByCustodyAddress", NoHubMessage)}

\* Engine.handleMergeNameRegistryEvent up to its first await: for a transfer
\* with a from address, the handler waits for the id-registry event of the
\* from address.
handleMergeNameRegistryEvent(event) ==
    IF event.type = "Transfer" /\ event.from # NoAddress
    THEN {HubHandler("handleMergeNameRegistryEvent", 0, event.from,
                     "getIdRegistryEventByCustodyAddress", NoHubMessage)}
    ELSE {}

\* The revoke of a store: the message leaves the store, stored or not, and
\* the RevokeMessage event is emitted to its handler.
storeRevoke(d, m) ==
    [d EXCEPT !.messages = @ \ {m},
              !.handlers = @ (+) SetToBag(handleRevokeMessageEvent(m))]

\* revokeMessageByKey up to its await of getMessage: a message that is not
\* stored any more is not found, and the database may fail.
loadMessage(d, m, fails) ==
    IF fails THEN "unavailable.storage_failure"
    ELSE IF m \notin d.messages THEN "not_found"
    ELSE "ok"

\* revokeMessageByKey after getMessage: the store of the type of the message
\* revokes it.
revokeMessageByKey(d, m, fails) ==
    IF typeToSetPostfix(m.type) = "none"
    THEN [db |-> d, result |-> "bad_request.invalid_param"]
    ELSE IF fails
    THEN [db |-> d, result |-> "unavailable.storage_failure"]
    ELSE [db |-> storeRevoke(d, m), result |-> "ok"]

\* Variant: the iteration stops at the first message that fails.
revokeMessagesBySigner_StopOnFailure(job, m, result) ==
    [job EXCEPT !.iterator = IF result = "ok" THEN @ \ {m} ELSE {},
                !.key = {},
                !.loaded = {},
                !.revokedCount = IF result = "ok" THEN @ + 1 ELSE @]

\* Engine.revokeMessagesBySigner, the end of one turn of its loop: a revoke
\* is counted, an error is logged, and the iteration goes on.
revokeMessagesBySigner(job, m, result) ==
    [job EXCEPT !.iterator = @ \ {m},
                !.key = {},
                !.loaded = {},
                !.revokedCount = IF result = "ok" THEN @ + 1 ELSE @]

\* The messages that pruneMessages of a store removes for a fid: those with
\* at least HubPruneSizeLimit later messages of the fid in the store.
storePruneMessages(d, fid, postfix) ==
    LET kept == { m \in d.messages :
                    m.fid = fid /\ typeToSetPostfix(m.type) = postfix }
    IN  { m \in kept :
            Cardinality({ x \in kept : x.timestamp > m.timestamp })
                >= HubPruneSizeLimit }

\* The handlers of the PruneMessage events of the messages, one for each
\* event.
pruneMessageHandlers(pruned) ==
    LET hs == UNION { handlePruneMessageEvent(m) : m \in pruned }
    IN  [h \in hs |->
            Cardinality({ m \in pruned : h \in handlePruneMessageEvent(m) })]

\* Engine.pruneMessages(fid), one store: the store prunes the messages of
\* the fid and a PruneMessage event is emitted for each.
enginePruneMessages(d, fid, postfix) ==
    LET pruned == storePruneMessages(d, fid, postfix)
    IN  [d EXCEPT !.messages = @ \ pruned,
                  !.handlers = @ (+) pruneMessageHandlers(pruned)]

isFnameAdd(m) == m.type = "UserDataAdd" /\ m.key = FNAME /\ m.value # ""

\* Engine.validateMessage up to its first await: the network is checked,
\* and the call waits for the id-registry event of the fid.
validateMessageCall_Hub(op, m) ==
    IF m.network # HubNetwork
    THEN HubValidation(op, m, "done", NoHubEvent, NoHubEvent,
                       "bad_request.validation_failure")
    ELSE HubValidation(op, m, "validateMessage", NoHubEvent, NoHubEvent, "none")

\* Engine.validateMessage without the worker: what the call returns, from
\* what it has read; none while it has more to read.
validateMessage(c) ==
    LET m == c.message IN
    IF c.at = "done" THEN c.result
    ELSE IF c.at = "validateMessage" THEN "none"
    ELSE IF c.at = "getIdRegistryEvent"
    THEN IF c.custodyEvent.type = "none" THEN "bad_request.validation_failure"
         ELSE IF isSignerAddMessage(m) \/ isSignerRemoveMessage(m)
         THEN IF m.signer # c.custodyEvent.to
              THEN "bad_request.validation_failure"
              ELSE "ok"
         ELSE "none"
    ELSE IF c.at = "getSignerAdd"
    THEN IF c.result # "ok" THEN "bad_request.validation_failure"
         ELSE IF isFnameAdd(m) THEN "none"
         ELSE "ok"
    ELSE IF c.nameEvent.type = "none" \/ c.custodyEvent.to # c.nameEvent.to
    THEN "bad_request.validation_failure"
    ELSE "ok"

\* The stored messages a message conflicts with: signer messages of the
\* same custody address and key, user data of the same type.
hubConflicts(d, m) ==
    { s \in d.messages :
        /\ s.fid = m.fid /\ s # m
        /\ typeToSetPostfix(s.type) = typeToSetPostfix(m.type)
        /\ typeToSetPostfix(m.type) \in {"SignerMessage", "UserDataMessage"}
        /\ s.key = m.key
        /\ typeToSetPostfix(m.type) = "SignerMessage" => s.signer = m.signer }

\* The merge of a store: a duplicate and a message that loses to a stored
\* one are rejected; else the message is stored in place of those it
\* conflicts with and the MergeMessage event is emitted to its handler.
hubStoreMerge(d, m) ==
    IF m \in d.messages
    THEN [db |-> d, result |-> "bad_request.duplicate"]
    ELSE IF \E s \in hubConflicts(d, m) : s.timestamp >= m.timestamp
    THEN [db |-> d, result |-> "bad_request.conflict"]
    ELSE [db |-> [d EXCEPT !.messages = (@ \ hubConflicts(d, m)) \cup {m},
                           !.handlers = @ (+) SetToBag(handleMergeMessageEvent(m))],
          result |-> "ok"]

\* Variant: the message goes to its store before it is validated.
mergeMessage_StoreFirst(d, m) ==
    LET s == IF typeToSetPostfix(m.type) = "none" THEN d
             ELSE hubStoreMerge(d, m).db
    IN  [s EXCEPT !.calls = @ \cup {validateMessageCall_Hub("mergeMessage", m)}]

\* Engine.mergeMessage up to its await of validateMessage.
mergeMessage(d, m) ==
    [d EXCEPT !.calls = @ \cup {validateMessageCall_Hub("mergeMessage", m)}]

\* Engine.validateOrRevokeMessage up to its await of validateMessage.
validateOrRevokeMessage(d, m) ==
    [d EXCEPT !.calls =
        @ \cup {validateMessageCall_Hub("validateOrRevokeMessage", m)}]

\* The calls that have nothing to wait for but their return: mergeMessage
\* when validateMessage returns an error or the type of the valid message
\* has no store, validateOrRevokeMessage when the message is valid.
returnsNow(c) ==
    \/ /\ c.op = "mergeMessage"
       /\ \/ validateMessage(c) \notin {"ok", "none"}
          \/ validateMessage(c) = "ok" /\ typeToSetPostfix(c.message.type) = "none"
    \/ c.op = "validateOrRevokeMessage" /\ validateMessage(c) = "ok"

\* The database when the calls that wait for nothing but their return have
\* returned.
afterReturns(d) == [d EXCEPT !.calls = { c \in @ : ~ returnsNow(c) }]

\* What one of the calls that return in the step returns.
returned(d) ==
    IF \E c \in d.calls : returnsNow(c)
    THEN LET c == CHOOSE x \in d.calls : returnsNow(x)
         IN  HubReturn(c.op, c.message,
                       IF c.op = "mergeMessage"
                       THEN "bad_request.validation_failure"
                       ELSE "ok", {}, {})
    ELSE NoHubCall

\* Engine.mergeIdRegistryEvent: the signer store merges the event and
\* emits it to its handler.
mergeIdRegistryEvent(d, event) ==
    IF event.type \notin {"Register", "Transfer"}
    THEN [db |-> d, result |-> "bad_request.validation_failure"]
    ELSE IF mergeIdRegistryEventResult(d.custody[event.fid], event) # "ok"
    THEN [db |-> d,
          result |-> mergeIdRegistryEventResult(d.custody[event.fid], event)]
    ELSE [db |-> [d EXCEPT !.custody[event.fid] = event,
                           !.handlers =
                               @ (+) SetToBag(handleMergeIdRegistryEvent(event))],
          result |-> "ok"]

\* Engine.mergeNameRegistryEvent: the user data store merges the event and
\* emits it to its handler.
mergeNameRegistryEvent(d, event) ==
    IF event.type \notin {"Transfer", "Renew"}
    THEN [db |-> d, result |-> "bad_request.validation_failure"]
    ELSE IF mergeNameRegistryEventResult(d.nameEvent, event) # "ok"
    THEN [db |-> d, result |-> mergeNameRegistryEventResult(d.nameEvent, event)]
    ELSE [db |-> [d EXCEPT !.nameEvent = event,
                           !.handlers =
                               @ (+) SetToBag(handleMergeNameRegistryEvent(event))],
          result |-> "ok"]

\* One step of the engine: the database after it, and what the call that
\* returns in the step returns.
HubCall(db, call) == hub' = [db EXCEPT !.call = call]

\* One step of message validation: the database after it, when the calls
\* that have nothing to wait for but their return have returned.
HubValidationStep(db) == HubCall(afterReturns(db), returned(db))

HubFrame == UNCHANGED <<syncTrie, nodes, lastSync, otherVars, storeVars, engineVars>>

\* mergeIdRegistryEvent returns when the store has merged the event; the
\* handler of the event goes on by itself.
HubMergeIdRegistryEvent(event) ==
    /\ HubMayCall(1)
    /\ LET out == mergeIdRegistryEvent(hub, event)
       IN  HubCall(HubCalled(out.db, 1), HubReturn("mergeIdRegistryEvent", event, out.result, {}, {}))
    /\ HubFrame

HubMergeNameRegistryEvent(event) ==
    /\ HubMayCall(1)
    /\ LET out == mergeNameRegistryEvent(hub, event)
       IN  HubCall(HubCalled(out.db, 1), HubReturn("mergeNameRegistryEvent", event, out.result, {}, {}))
    /\ HubFrame

\* A handler's await of enqueueJob is over: the job is in the queue, or the
\* queue returned an error, which the handler logs; in both cases
\* handleMergeIdRegistryEvent goes on to read the fname of the fid and the
\* other handlers return.
HubHandlerEnqueueJob(h, fails) ==
    /\ h.at = "enqueueJob"
    /\ MayFail(fails)
    /\ LET queued == IF fails THEN Failing(hub, fails) ELSE enqueueJob(hub, h.fid, h.signer)
           next == IF h.handler = "handleMergeIdRegistryEvent"
                   THEN {[h EXCEPT !.at = "getUserDataAdd"]}
                   ELSE {}
       IN  HubCall([queued EXCEPT !.handlers = (@ (-) SetToBag({h})) (+) SetToBag(next)],
                   IF fails
                   THEN HubReturn("enqueueJob", <<h.fid, h.signer>>,
                                  "unavailable.storage_failure", {}, {})
                   ELSE NoHubCall)
    /\ HubFrame

\* handleMergeNameRegistryEvent reads the id-registry event of the from
\* address: with none the handler returns, else it goes on to read the
\* fname of its fid.
HubHandlerGetIdRegistryEvent(h) ==
    /\ h.at = "getIdRegistryEventByCustodyAddress"
    /\ LET fids == getIdRegistryEventByCustodyAddress(hub, h.signer)
           next == { [h EXCEPT !.at = "getUserDataAdd", !.fid = f] : f \in fids }
       IN  HubCall([hub EXCEPT !.handlers = (@ (-) SetToBag({h})) (+) SetToBag(next)],
                   NoHubCall)
    /\ HubFrame

\* A handler reads the UserDataAdd of type FNAME of the fid: with none the
\* handler returns, else it goes on to revoke the message.
HubHandlerGetUserDataAdd(h) ==
    /\ h.at = "getUserDataAdd"
    /\ LET found == getUserDataAdd(hub, h.fid, FNAME)
           next == { [h EXCEPT !.at = "revoke", !.message = u] : u \in found }
       IN  HubCall([hub EXCEPT !.handlers = (@ (-) SetToBag({h})) (+) SetToBag(next)],
                   NoHubCall)
    /\ HubFrame

\* The handler's await of the revoke of the fname it read is over: the user
\* data store has revoked the message, or it returned an error, which the
\* handler logs while the message stays; the handler returns.
HubHandlerRevoke(h, fails) ==
    /\ h.at = "revoke"
    /\ MayFail(fails)
    /\ LET d == Failing([hub EXCEPT !.handlers = @ (-) SetToBag({h})], fails)
       IN  IF fails
           THEN HubCall(d, HubReturn(h.handler, h.fid, "unavailable.storage_failure",
                                     {}, {h.message}))
           ELSE HubCall(storeRevoke(d, h.message),
                        HubReturn(h.handler, h.fid, "ok", {h.message}, {}))
    /\ HubFrame

\* mergeMessage is called: validateMessage checks the network and waits for
\* the id-registry event of the fid.
HubMergeMessage(m) ==
    /\ HubMayCall(1)
    /\ ~ HubInFlight(m)
    /\ HubValidationStep(HubCalled(mergeMessage(hub, m), 1))
    /\ HubFrame

\* mergeMessages calls mergeMessage for each message in turn before any of
\* the calls goes on: each call waits for its own read of the id-registry
\* event, and goes on by itself when the read is over.
HubMergeMessages(ms) ==
    /\ HubMayCall(Len(ms))
    /\ \A i, j \in 1..Len(ms) : i # j => ms[i] # ms[j]
    /\ \A i \in 1..Len(ms) : ~ HubInFlight(ms[i])
    /\ HubValidationStep(
           HubCalled(mergeMessage(mergeMessage(hub, ms[1]), ms[2]), Len(ms)))
    /\ HubFrame

\* The job that checks the stored messages calls validateOrRevokeMessage
\* for one of them.
HubValidateOrRevokeMessage(m) ==
    /\ HubMayCall(1)
    /\ ~ HubInFlight(m)
    /\ m \in hub.messages
    /\ HubValidationStep(HubCalled(validateOrRevokeMessage(hub, m), 1))
    /\ HubFrame

\* Step 3 of validateMessage: the await of getIdRegistryEvent of the call is
\* over, with the id-registry event of the fid that is stored at the time;
\* without one, and for a signer message that the custody address of the
\* event did not sign, the call returns the error.
HubGetIdRegistryEvent(c) ==
    /\ c.at = "validateMessage"
    /\ LET next == [c EXCEPT !.at = "getIdRegistryEvent",
                             !.custodyEvent = getIdRegistryEvent(hub, c.message.fid)]
       IN  HubValidationStep([hub EXCEPT !.calls = (@ \ {c}) \cup {next}])
    /\ HubFrame

\* Step 4 of validateMessage for a message that is no signer message: the
\* signer store reads the SignerAdd of the signer for the custody address
\* of the id-registry event of the fid that is stored at the time.
HubGetSignerAdd(c) ==
    /\ c.at = "getIdRegistryEvent"
    /\ validateMessage(c) = "none"
    /\ LET found == getSignerAdd({ a \in hub.messages : a.fid = c.message.fid },
                                 getIdRegistryEvent(hub, c.message.fid),
                                 c.message.signer)
           next == [c EXCEPT !.at = "getSignerAdd",
                             !.custodyEvent = IF isFnameAdd(c.message) THEN @
                                              ELSE NoHubEvent,
                             !.result = IF found = {} THEN "not_found" ELSE "ok"]
       IN  HubValidationStep([hub EXCEPT !.calls = (@ \ {c}) \cup {next}])
    /\ HubFrame

\* Step 5 of validateMessage: the name-registry event of the fname is read.
HubGetNameRegistryEvent(c) ==
    /\ c.at = "getSignerAdd"
    /\ validateMessage(c) = "none"
    /\ LET next == [c EXCEPT !.at = "getNameRegistryEvent",
                             !.nameEvent = hub.nameEvent]
       IN  HubValidationStep([hub EXCEPT !.calls = (@ \ {c}) \cup {next}])
    /\ HubFrame

\* The store of the type merges the validated message, and mergeMessage
\* returns what the store returns.
HubStoreMerge(c) ==
    /\ c.op = "mergeMessage"
    /\ validateMessage(c) = "ok"
    /\ typeToSetPostfix(c.message.type) # "none"
    /\ LET out == hubStoreMerge([hub EXCEPT !.calls = @ \ {c}], c.message)
       IN  HubCall(out.db, HubReturn("mergeMessage", c.message, out.result, {}, {}))
    /\ HubFrame

\* validateOrRevokeMessage revokes the message that is not valid.
HubRevokeInvalid(c) ==
    /\ c.op = "validateOrRevokeMessage"
    /\ validateMessage(c) \notin {"ok", "none"}
    /\ LET d == [hub EXCEPT !.calls = @ \ {c}]
       IN  IF typeToSetPostfix(c.message.type) = "none"
           THEN HubCall(d, HubReturn("validateOrRevokeMessage", c.message,
                                     "bad_request.invalid_param", {}, {}))
           ELSE HubCall(storeRevoke(d, c.message),
                        HubReturn("validateOrRevokeMessage", c.message, "ok",
                                  {c.message}, {}))
    /\ HubFrame

\* pruneMessages(fid) is called: the signer store prunes.
HubPruneMessages(fid) ==
    /\ HubMayCall(1)
    /\ \A p \in hub.prunes : p.fid # fid
    /\ LET d == enginePruneMessages(hub, fid, PruneOrder[1])
       IN  HubCall(HubCalled([d EXCEPT !.prunes = @ \cup {[fid |-> fid, at |-> 2]}],
                             1),
                   NoHubCall)
    /\ HubFrame

\* The next store prunes; after the last one pruneMessages returns.
HubPruneStore(p) ==
    /\ LET d == enginePruneMessages([hub EXCEPT !.prunes = @ \ {p}], p.fid,
                                    PruneOrder[p.at])
       IN  IF p.at < Len(PruneOrder)
           THEN HubCall([d EXCEPT !.prunes = @ \cup {[p EXCEPT !.at = @ + 1]}],
                        NoHubCall)
           ELSE HubCall(d, HubReturn("pruneMessages", p.fid, "ok", {}, {}))
    /\ HubFrame

\* bytesToHexString(signer): the hex string of the bytes, or an error for a
\* value that has none.
bytesToHexString(signer, encodes) ==
    IF encodes THEN [result |-> "ok", value |-> signer]
    ELSE [result |-> "unknown", value |-> NoAddress]

\* The worker takes a job off the queue and calls revokeMessagesBySigner:
\* with a signer that has no hex string the call returns the error at once;
\* else it opens the iterator over the messages under the signer and waits
\* for its first key.
HubRunRevokeJob(fid, signer, encodes) ==
    /\ <<fid, signer>> \in hub.jobs
    /\ hub.job = NoHubJob
    /\ MayFail(~ encodes)
    /\ LET signerHex == bytesToHexString(signer, encodes)
           taken == Failing([hub EXCEPT !.jobs = @ \ {<<fid, signer>>}], ~ encodes)
       IN  IF signerHex.result # "ok"
           THEN HubCall(taken, HubReturn("revokeMessagesBySigner", <<fid, signer>>,
                                         signerHex.result, {}, {}))
           ELSE HubCall([taken EXCEPT
                            !.job = [fid |-> fid, signer |-> signer,
                                     iterator |-> getMessagesBySignerIterator(
                                                      hub, fid, signer),
                                     key |-> {},
                                     loaded |-> {},
                                     revokedCount |-> 0]],
                        NoHubCall)
    /\ HubFrame

\* A turn of the loop of revokeMessagesBySigner begins: the await of the
\* next key of the iterator is over, with the key of one of the messages
\* that were under the signer when the iterator was opened, and
\* revokeMessageByKey waits for getMessage.  When the iterator fails
\* instead, nothing catches the error: the call is rejected, after the
\* turns it has made.
HubNextKey(m, fails) ==
    /\ hub.job # NoHubJob
    /\ hub.job.key = {} /\ hub.job.loaded = {}
    /\ m \in hub.job.iterator
    /\ MayFail(fails)
    /\ IF fails
       THEN HubCall(Failing([hub EXCEPT !.job = NoHubJob], fails),
                    HubReturn("revokeMessagesBySigner",
                              <<hub.job.fid, hub.job.signer>>, "rejected", {}, {}))
       ELSE HubCall([hub EXCEPT !.job.key = {m}], NoHubCall)
    /\ HubFrame

\* The await of getMessage is over, whatever was called in between: the
\* message of the key is loaded and its store is asked to revoke it; a
\* message that cannot be loaded is logged and the loop waits for the next
\* key.
HubGetMessage(m, fails) ==
    /\ hub.job # NoHubJob
    /\ hub.job.key = {m}
    /\ MayFail(fails)
    /\ LET result == loadMessage(hub, m, fails)
       IN  IF result = "ok"
           THEN HubCall([hub EXCEPT !.job.key = {}, !.job.loaded = {m}], NoHubCall)
           ELSE HubCall(Failing([hub EXCEPT !.job = revokeMessagesBySigner(@, m, result)], fails),
                        HubReturn("revokeMessageByKey", m, result, {}, {m}))
    /\ HubFrame

\* The end of the turn: the store revokes the message that was loaded; a
\* revoke that fails is logged, and the loop waits for the next key.
HubRevokeMessageByKey(m, fails) ==
    /\ hub.job # NoHubJob
    /\ hub.job.loaded = {m}
    /\ MayFail(fails)
    /\ LET out == revokeMessageByKey(hub, m, fails)
           d == Failing([out.db EXCEPT
                    !.job = revokeMessagesBySigner(hub.job, m, out.result)], fails)
       IN  HubCall(d, IF out.result = "ok"
                      THEN HubReturn("revokeMessageByKey", m, out.result, {m}, {})
                      ELSE HubReturn("revokeMessageByKey", m, out.result, {}, {m}))
    /\ HubFrame

\* The iterator is at its end: the wait for the next key is over, the loop
\* ends and revokeMessagesBySigner returns ok; when the iterator fails
\* instead, the call is rejected.
HubFinishRevokeJob(fails) ==
    /\ hub.job # NoHubJob
    /\ hub.job.iterator = {}
    /\ hub.job.key = {} /\ hub.job.loaded = {}
    /\ MayFail(fails)
    /\ HubCall(Failing([hub EXCEPT !.job = NoHubJob], fails),
               HubReturn("revokeMessagesBySigner", <<hub.job.fid, hub.job.signer>>,
                         IF fails THEN "rejected" ELSE "ok", {}, {}))
    /\ HubFrame

InitHub ==
    /\ InitStoreVars
    /\ InitSyncVars
    /\ pruneSizeLimit = getDefaultStoreLimit(LimitChangeDay)
    /\ InitEngineVars

\* The steps of the calls in progress.
HubCallStep ==
    \/ \E c \in hub.calls : HubGetIdRegistryEvent(c)
    \/ \E c \in hub.calls : HubGetSignerAdd(c)
    \/ \E c \in hub.calls : HubGetNameRegistryEvent(c)
    \/ \E c \in hub.calls : HubStoreMerge(c)
    \/ \E c \in hub.calls : HubRevokeInvalid(c)
    \/ \E p \in hub.prunes : HubPruneStore(p)

\* The steps of the handlers of the store events, where the queue and the
\* user data store fail as failures says.
HubHandlerStep(failures) ==
    \/ \E h \in BagToSet(hub.handlers) : \E fails \in failures :
         HubHandlerEnqueueJob(h, fails)
    \/ \E h \in BagToSet(hub.handlers) : HubHandlerGetIdRegistryEvent(h)
    \/ \E h \in BagToSet(hub.handlers) : HubHandlerGetUserDataAdd(h)
    \/ \E h \in BagToSet(hub.handlers) : \E fails \in failures :
         HubHandlerRevoke(h, fails)

\* The steps of the job worker, where the iterator, the loads and the
\* revokes fail, and the signer of a job has no hex string, as failures
\* says.
HubJobStep(failures) ==
    \/ \E job \in hub.jobs : \E fails \in failures :
         HubRunRevokeJob(job[1], job[2], ~ fails)
    \/ \E m \in hub.job.iterator : \E fails \in failures : HubNextKey(m, fails)
    \/ \E m \in hub.job.key : \E fails \in failures : HubGetMessage(m, fails)
    \/ \E m \in hub.job.loaded : \E fails \in failures :
         HubRevokeMessageByKey(m, fails)
    \/ \E fails \in failures : HubFinishRevokeJob(fails)

\* The calls made to the engine, for the given messages and events.
HubNewCall(messages, idEvents, nameEvents) ==
    \/ \E event \in idEvents : HubMergeIdRegistryEvent(event)
    \/ \E event \in nameEvents : HubMergeNameRegistryEvent(event)
    \/ \E m \in messages : HubMergeMessage(m)
    \/ \E m1, m2 \in messages : HubMergeMessages(<<m1, m2>>)
    \/ \E fid \in PruneFids : HubPruneMessages(fid)
    \/ \E m \in messages : HubValidateOrRevokeMessage(m)

NextHub ==
    \/ HubNewCall(HubMessages, HubIdRegistryEvents, NameRegistryEvents)
    \/ HubCallStep
    \/ HubHandlerStep(BOOLEAN)
    \/ HubJobStep(BOOLEAN)

SpecHub == InitHub /\ [][NextHub]_vars

\* The messages of fid 1 that a store takes, its id-registry events, and
\* the mint and the transfer of the fname.
FairHubMessages ==
    { m \in HubMessages :
        m.fid = 1 /\ m.network = HubNetwork /\ typeToSetPostfix(m.type) # "none" }
FairIdRegistryEvents == { e \in HubIdRegistryEvents : e.fid = 1 }
FairNameRegistryEvents == { e \in NameRegistryEvents : e.type = "Transfer" }

\* The engine called for these when the database does not fail, the calls
\* and the handlers go on and the worker runs every job that stays in the
\* queue.
NextHubNoFailure ==
    \/ HubNewCall(FairHubMessages, FairIdRegistryEvents, FairNameRegistryEvents)
    \/ HubCallStep
    \/ HubHandlerStep({FALSE})
    \/ HubJobStep({FALSE})

SpecHubFair ==
    /\ InitHub
    /\ [][NextHubNoFailure]_vars
    /\ WF_vars(HubCallStep)
    /\ WF_vars(HubHandlerStep({FALSE}))
    /\ WF_vars(HubJobStep({FALSE}))

(***************************************************************************)
(* Engine.start and Engine.stop: the listeners on the store events, the    *)
(* validation worker with its pending requests, the job worker.            *)
(***************************************************************************)
JobIds == 0..(MaxJobId - 1)

\* Whether build/storage/engine/validation.worker.js exists.
WorkerPathExists == {TRUE, FALSE}

\* Engine.start: the job worker is started; a validation worker is created
\* when there is none and the worker file exists; the five handlers are
\* registered.
start(e, exists) ==
    [e EXCEPT !.revokeSignerWorker = "started",
              !.validationWorker =
                  IF @ = "undefined" /\ exists THEN "worker" ELSE @,
              !.listeners = [ev \in EngineEvents |-> @[ev] + 1]]

\* Engine.stop up to its await: one registration of each handler is
\* removed and the job worker is started; with a validation worker in the
\* field, terminate is called on it and the call waits, the field still set.
stop(e) ==
    [e EXCEPT !.listeners = [ev \in EngineEvents |-> IF @[ev] > 0 THEN @[ev] - 1 ELSE 0],
              !.revokeSignerWorker = "started",
              !.terminating = @ \/ e.validationWorker = "worker",
              !.stopping = IF e.validationWorker = "worker" THEN @ + 1 ELSE @]

\* Engine.stop after its await: the field is cleared. The thread that was
\* terminated has exited, and what was posted to it is gone with it; a
\* worker that start created after an earlier stop cleared the field goes
\* on running outside the field, with the requests posted to it.
terminated(e) ==
    [e EXCEPT !.validationWorker = "undefined",
              !.terminating = FALSE,
              !.stopping = @ - 1,
              !.posted = {},
              !.orphaned = IF e.terminating THEN @ ELSE @ \cup e.posted]

\* Variant: the id of the last request is given again.
postMessage_SameId(e) ==
    LET id == IF e.validationWorkerJobId > 0 THEN e.validationWorkerJobId - 1 ELSE 0
    IN  [e EXCEPT !.validationWorkerJobId = IF @ = 0 THEN 1 ELSE @,
                  !.validationWorkerPromiseMap = @ \cup {id},
                  !.posted = IF e.terminating THEN @ ELSE @ \cup {id}]

\* Engine.validateMessage, step 6 with a worker in the field: the request
\* takes the next job id, its resolve function is put in the map under the
\* id, and the message is posted to the worker; a worker that is
\* terminating does not take it.
postMessage(e) ==
    LET id == e.validationWorkerJobId
    IN  [e EXCEPT !.validationWorkerJobId = id + 1,
                  !.validationWorkerPromiseMap = @ \cup {id},
                  !.posted = IF e.terminating THEN @ ELSE @ \cup {id}]

\* Variant: the entry stays in the map when its request is resolved.
onWorkerMessage_KeepEntry(e, id) ==
    IF id \in e.validationWorkerPromiseMap
    THEN [e EXCEPT !.resolved[id] = @ + 1,
                   !.posted = @ \ {id},
                   !.orphaned = @ \ {id}]
    ELSE e

\* The handler of the worker's messages: the request under the id is
\* resolved and its entry deleted; without an entry, a warning is logged.
onWorkerMessage(e, id) ==
    IF id \in e.validationWorkerPromiseMap
    THEN [e EXCEPT !.validationWorkerPromiseMap = @ \ {id},
                   !.resolved[id] = @ + 1,
                   !.posted = @ \ {id},
                   !.orphaned = @ \ {id}]
    ELSE e

LifecycleCall(op, id, e) ==
    /\ lifecycle' = [e EXCEPT !.call =
           [op |-> op, id |-> id,
            resolved |-> { i \in JobIds : e.resolved[i] > lifecycle.resolved[i] }]]
    /\ UNCHANGED <<syncTrie, nodes, lastSync, hub, provider, signerSet,
                   storeVars, engineVars>>

Start(exists) ==
    /\ \A ev \in EngineEvents : lifecycle.listeners[ev] < MaxListeners
    /\ LifecycleCall("start", 0, start(lifecycle, exists))

\* stop is called: without a validation worker in the field it returns in
\* the step, with one it waits for terminate.
Stop ==
    IF lifecycle.validationWorker = "worker"
    THEN /\ lifecycle.stopping < MaxStops
         /\ LifecycleCall("terminate", 0, stop(lifecycle))
    ELSE LifecycleCall("stop", 0, stop(lifecycle))

\* terminate has resolved: a stop call that waited goes on and returns.
StopReturn ==
    /\ lifecycle.stopping > 0
    /\ LifecycleCall("stop", 0, terminated(lifecycle))

\* A mergeMessage call reaches step 6 of validateMessage: with a worker the
\* request is posted, without one the message is validated at once.
ValidateMessage ==
    IF lifecycle.validationWorker = "worker"
    THEN /\ lifecycle.validationWorkerJobId < MaxJobId
         /\ LifecycleCall("postMessage", lifecycle.validationWorkerJobId,
                          postMessage(lifecycle))
    ELSE LifecycleCall("validateMessage", 0, lifecycle)

\* A worker thread answers a request that was posted to it.
WorkerMessage(id) ==
    /\ id \in lifecycle.posted \cup lifecycle.orphaned
    /\ LifecycleCall("message", id, onWorkerMessage(lifecycle, id))

\* A message of the worker with an id that has no entry in the map.
StrayWorkerMessage(id) ==
    /\ lifecycle.validationWorker = "worker"
    /\ id \notin lifecycle.validationWorkerPromiseMap
    /\ LifecycleCall("stray", id, onWorkerMessage(lifecycle, id))

\* A store commits an event whose handler enqueues a revoke job; the
\* handler runs once for every registration of it, each run up to its
\* await of enqueueJob, so that after two start calls two runs of the
\* handler wait for the queue.
EmitStoreEvent ==
    /\ lifecycle.queued + lifecycle.enqueueing + lifecycle.listeners["revokeMessage"]
           <= MaxQueuedJobs
    /\ LifecycleCall("event", 0,
          [lifecycle EXCEPT !.enqueueing = @ + lifecycle.listeners["revokeMessage"]])

\* The await of enqueueJob of one run of the handler is over, whatever was
\* called in between: the job is in the queue, or the queue returned an
\* error, which the handler logs; the handler returns.
EnqueueJobReturn(fails) ==
    /\ lifecycle.enqueueing > 0
    /\ LifecycleCall(IF fails THEN "enqueueJobError" ELSE "enqueueJob", 0,
          [lifecycle EXCEPT !.enqueueing = @ - 1,
                            !.queued = IF fails THEN @ ELSE @ + 1])

\* The job worker, once started, runs a queued job.
RunQueuedJob ==
    /\ lifecycle.revokeSignerWorker = "started"
    /\ lifecycle.queued > 0
    /\ LifecycleCall("job", 0, [lifecycle EXCEPT !.queued = @ - 1])

NextLifecycle ==
    \/ \E exists \in WorkerPathExists : Start(exists)
    \/ Stop
    \/ StopReturn
    \/ ValidateMessage
    \/ \E id \in JobIds : WorkerMessage(id)
    \/ \E id \in JobIds : StrayWorkerMessage(id)
    \/ EmitStoreEvent
    \/ \E fails \in BOOLEAN : EnqueueJobReturn(fails)
    \/ RunQueuedJob

SpecLifecycle == InitHub /\ [][NextLifecycle]_vars

\* A worker thread answers every request posted to it as long as it runs,
\* terminate resolves, the queue answers every enqueueJob, and the job
\* worker runs the jobs in the queue.
SpecLifecycleFair ==
    /\ InitHub
    /\ [][NextLifecycle]_vars
    /\ \A id \in JobIds : WF_vars(WorkerMessage(id))
    /\ WF_vars(StopReturn)
    /\ WF_vars(\E fails \in BOOLEAN : EnqueueJobReturn(fails))
    /\ WF_vars(RunQueuedJob)

(***************************************************************************)
(* RetryProvider: _perform, getLogs and getBlockNumber with retries.       *)
(***************************************************************************)
RETRY_LIMIT == 3
ETHERS_CACHE_DELAY_MS == 251
\* The status code of a rate-limit error.
TooManyRequests == "429"
\* Another status code, and the statusCode of an error that has none.
ServerError == "500"
NoStatusCode == "undefined"
StatusCodes == {TooManyRequests, ServerError, NoStatusCode}
\* What a call of the underlying method does: it returns, or throws an
\* error with a status code.
Outcomes == {"ok"} \cup StatusCodes
\* The altDelay argument of RetryProvider; 0 stands for undefined as well.
AltDelays == {0, 10}
ProviderMethods == {"_perform", "getLogs", "getBlockNumber"}

RECURSIVE pow(_, _)
pow(base, exponent) == IF exponent = 0 THEN 1 ELSE base * pow(base, exponent - 1)

\* Variant: the delay grows with the attempt, not with its power.
delayMs_Linear(altDelay, attempt) ==
    (IF altDelay # 0 THEN altDelay ELSE ETHERS_CACHE_DELAY_MS) * attempt

\* (altDelay || ETHERS_CACHE_DELAY_MS) * Math.pow(attempt, attempt)
delayMs(altDelay, attempt) ==
    (IF altDelay # 0 THEN altDelay ELSE ETHERS_CACHE_DELAY_MS) * pow(attempt, attempt)

\* One round of try / catch: the underlying method is called; its result is
\* returned; its error is thrown again when rethrow holds, else the timer
\* is set.
afterCall(p, outcome, rethrow) ==
    IF outcome = "ok"
    THEN [p EXCEPT !.calls = @ + 1, !.status = "returned", !.last = outcome]
    ELSE IF rethrow
    THEN [p EXCEPT !.calls = @ + 1, !.status = "thrown", !.last = outcome,
                   !.errors = Append(@, outcome)]
    ELSE [p EXCEPT !.calls = @ + 1, !.status = "waiting", !.last = outcome,
                   !.errors = Append(@, outcome),
                   !.waits = Append(@, delayMs(p.altDelay, p.attempt))]

\* Variant: _perform retries after any error.
performWithRetry_AnyError(p, outcome) ==
    afterCall(p, outcome, p.attempt >= RETRY_LIMIT)

performWithRetry(p, outcome) ==
    afterCall(p, outcome, outcome # TooManyRequests \/ p.attempt >= RETRY_LIMIT)

getLogsWithRetry(p, outcome) ==
    afterCall(p, outcome, p.attempt >= RETRY_LIMIT)

getBlockNumberWithRetry(p, outcome) ==
    afterCall(p, outcome, p.attempt >= RETRY_LIMIT)

ProviderFrame ==
    UNCHANGED <<syncTrie, nodes, lastSync, hub, lifecycle, signerSet,
                storeVars, engineVars>>

\* A call of _perform, getLogs or getBlockNumber: the first attempt begins.
Request(method, altDelay) ==
    /\ provider.status \in {"idle", "returned", "thrown"}
    /\ provider' = [method |-> method, altDelay |-> altDelay, attempt |-> 1,
                    calls |-> 0, status |-> "running", last |-> "none",
                    errors |-> <<>>, waits |-> <<>>]
    /\ ProviderFrame

\* The underlying method returns or throws.
SuperCall(outcome) ==
    /\ provider.status = "running"
    /\ provider' =
          IF provider.method = "_perform" THEN performWithRetry(provider, outcome)
          ELSE IF provider.method = "getLogs" THEN getLogsWithRetry(provider, outcome)
          ELSE getBlockNumberWithRetry(provider, outcome)
    /\ ProviderFrame

\* The timer fires: the next attempt begins.
TimerFires ==
    /\ provider.status = "waiting"
    /\ provider' = [provider EXCEPT !.status = "running", !.attempt = @ + 1]
    /\ ProviderFrame

NextProvider ==
    \/ \E method \in ProviderMethods : \E altDelay \in AltDelays :
          Request(method, altDelay)
    \/ \E outcome \in Outcomes : SuperCall(outcome)
    \/ TimerFires

SpecProvider == InitHub /\ [][NextProvider]_vars

\* The underlying method answers, and the timer fires.
SpecProviderFair ==
    /\ InitHub
    /\ [][NextProvider]_vars
    /\ WF_vars(\E outcome \in Outcomes : SuperCall(outcome))
    /\ WF_vars(TimerFires)

(***************************************************************************)
(* SignerSet: the custody signers, the graph of delegate keys (vertexAdds, *)
(* vertexRemoves, edgeAdds, edgeRemoves) and the merged messages.          *)
(***************************************************************************)
CustodySigner == "custodySigner"
SignerKeys == {"a", "b", "c", "d"}

SignerSetMessage(name, type, signer, childKey, hash) ==
    [name |-> name, type |-> type, signer |-> signer, childKey |-> childKey,
     hash |-> hash]

\* The messages of the tests, with hashes in the order the tests set up.
SignerSetMessages ==
    { SignerSetMessage("addA", "SignerAdd", CustodySigner, "a", 1),
      SignerSetMessage("addB", "SignerAdd", CustodySigner, "b", 2),
      SignerSetMessage("addCToA", "SignerAdd", "a", "c", 3),
      SignerSetMessage("addCToB", "SignerAdd", "b", "c", 4),
      SignerSetMessage("addCHigherHash", "SignerAdd", CustodySigner, "c", 5),
      SignerSetMessage("addAToCHigherHash", "SignerAdd", "c", "a", 6),
      SignerSetMessage("addDToC", "SignerAdd", "c", "d", 7),
      SignerSetMessage("addCToADuplicate", "SignerAdd", "a", "c", 8),
      SignerSetMessage("remA", "SignerRemove", CustodySigner, "a", 9),
      SignerSetMessage("remCFromA", "SignerRemove", "a", "c", 10),
      SignerSetMessage("remCFromB", "SignerRemove", "b", "c", 11),
      SignerSetMessage("remC", "SignerRemove", CustodySigner, "c", 12) }

\* The set apart from the record of the last call.
SignerSetState(s) ==
    [custodySigners |-> s.custodySigners, vertexAdds |-> s.vertexAdds,
     vertexRemoves |-> s.vertexRemoves, edgeAdds |-> s.edgeAdds,
     edgeRemoves |-> s.edgeRemoves, messages |-> s.messages]

\* SignerSet._reset.
EmptySignerSet ==
    [custodySigners |-> {}, vertexAdds |-> {}, vertexRemoves |-> {},
     edgeAdds |-> {}, edgeRemoves |-> {}, messages |-> {}]

\* SignerSet.addCustody.
addCustody(s, custody) == [s EXCEPT !.custodySigners = @ \cup {custody}]

\* The entry of an edge map under the key (parent, child).
edgeAt(edges, parent, child) ==
    { e \in edges : e.parent = parent /\ e.child = child }

\* Map.set on an edge map, keeping the higher hash under a key.
setEdge(edges, parent, child, hash) ==
    IF \E e \in edgeAt(edges, parent, child) : e.hash >= hash
    THEN edges
    ELSE (edges \ edgeAt(edges, parent, child))
            \cup {[parent |-> parent, child |-> child, hash |-> hash]}

\* The keys reached from the given keys along the edges.
RECURSIVE reachable(_, _)
reachable(edges, keys) ==
    LET more == keys \cup { e.child : e \in { x \in edges : x.parent \in keys } }
    IN  IF more = keys THEN keys ELSE reachable(edges, more)

\* Variant: the subtree of a key follows the edges of edgeAdds only.
subtree_EdgeAddsOnly(s, key) == reachable(s.edgeAdds, {key})

\* The subtree of a key: the key and the keys below it.
subtree(s, key) == reachable(s.edgeAdds \cup s.edgeRemoves, {key})

\* Variant: only the key itself is removed.
removeSubtree_KeyOnly(s, key) ==
    [s EXCEPT !.vertexAdds = @ \ {key},
              !.vertexRemoves = @ \cup {key},
              !.edgeAdds = { e \in @ : e.child # key },
              !.edgeRemoves = @ \cup { e \in s.edgeAdds : e.child = key }]

\* The key and its subtree move from vertexAdds to vertexRemoves, and their
\* edges from edgeAdds to edgeRemoves.
removeSubtree(s, key) ==
    LET keys == subtree(s, key)
    IN  [s EXCEPT !.vertexAdds = @ \ keys,
                  !.vertexRemoves = @ \cup keys,
                  !.edgeAdds = { e \in @ : e.child \notin keys },
                  !.edgeRemoves = @ \cup { e \in s.edgeAdds : e.child \in keys }]

\* Variant: no check for a cycle.
wouldCreateCycle_Never(s, parent, child) == FALSE

\* The edge (parent, child) would close a cycle in edgeAdds: the parent is
\* the child or below it.
wouldCreateCycle(s, parent, child) ==
    parent \in reachable(s.edgeAdds, {child})

\* Variant: the edge that comes later is kept in edgeAdds.
mergeSignerAdd_LastWins(s, m) ==
    [state |-> [s EXCEPT !.vertexAdds = @ \cup {m.childKey},
                         !.edgeAdds = { e \in @ : e.child # m.childKey } \cup
                             {[parent |-> m.signer, child |-> m.childKey, hash |-> m.hash]},
                         !.edgeRemoves = @ \cup { e \in s.edgeAdds : e.child = m.childKey },
                         !.messages = @ \cup {m}],
     result |-> "ok"]

\* SignerSet.merge of a SignerAdd.
mergeSignerAdd(s, m) ==
    LET parent == m.signer
        child == m.childKey
        kept == [s EXCEPT !.messages = @ \cup {m}]
        winner == { e \in s.edgeAdds : e.child = child }
    IN
    IF parent \notin s.custodySigners \cup s.vertexAdds \cup s.vertexRemoves
    THEN [state |-> s, result |-> "err"]
    ELSE IF parent \in s.vertexRemoves
    THEN [state |-> removeSubtree(
                      [kept EXCEPT !.vertexRemoves = @ \cup {child},
                                     !.vertexAdds = @ \ {child},
                                     !.edgeAdds = { e \in @ : e.child # child },
                                     !.edgeRemoves =
                                        setEdge(@ \cup winner, parent, child, m.hash)],
                      child),
          result |-> "ok"]
    ELSE IF child \in s.vertexRemoves
    THEN [state |-> [kept EXCEPT !.edgeRemoves = setEdge(@, parent, child, m.hash)],
          result |-> "ok"]
    ELSE IF child \notin s.vertexAdds
    THEN [state |-> [kept EXCEPT !.vertexAdds = @ \cup {child},
                                   !.edgeAdds = setEdge(@, parent, child, m.hash)],
          result |-> "ok"]
    ELSE IF \E e \in winner : e.parent = parent
    THEN [state |-> [kept EXCEPT !.edgeAdds = setEdge(@, parent, child, m.hash)],
          result |-> "ok"]
    ELSE IF \E e \in winner : e.hash > m.hash
    THEN [state |-> [kept EXCEPT !.edgeRemoves = setEdge(@, parent, child, m.hash)],
          result |-> "ok"]
    ELSE IF wouldCreateCycle(s, parent, child)
    THEN [state |-> s, result |-> "err"]
    ELSE [state |-> [kept EXCEPT
                        !.edgeAdds = setEdge(@ \ winner, parent, child, m.hash),
                        !.edgeRemoves =
                            (@ \ edgeAt(@, parent, child)) \cup winner],
          result |-> "ok"]

\* Variant: a rejected SignerRemove is stored.
mergeSignerRemove_StoresRejected(s, m) ==
    IF \/ m.childKey \notin s.vertexAdds \cup s.vertexRemoves
       \/ edgeAt(s.edgeAdds \cup s.edgeRemoves, m.signer, m.childKey) = {}
    THEN [state |-> [s EXCEPT !.messages = @ \cup {m}], result |-> "err"]
    ELSE [state |-> removeSubtree([s EXCEPT !.messages = @ \cup {m}], m.childKey),
          result |-> "ok"]

\* SignerSet.merge of a SignerRemove.
mergeSignerRemove(s, m) ==
    IF m.childKey \notin s.vertexAdds \cup s.vertexRemoves
    THEN [state |-> s, result |-> "err"]
    ELSE IF edgeAt(s.edgeAdds \cup s.edgeRemoves, m.signer, m.childKey) = {}
    THEN [state |-> s, result |-> "err"]
    ELSE [state |-> removeSubtree([s EXCEPT !.messages = @ \cup {m}], m.childKey),
          result |-> "ok"]

\* SignerSet.merge.
signerSetMerge(s, m) ==
    IF m \in s.messages THEN [state |-> s, result |-> "ok"]
    ELSE IF m.type = "SignerRemove" THEN mergeSignerRemove(s, m)
    ELSE mergeSignerAdd(s, m)

SignerSetFrame ==
    UNCHANGED <<syncTrie, nodes, lastSync, hub, lifecycle, provider,
                storeVars, engineVars>>

AddCustody(custody) ==
    /\ signerSet' = [state |-> addCustody(signerSet.state, custody),
                     call |-> [op |-> "addCustody", message |-> custody,
                               result |-> "ok"]]
    /\ SignerSetFrame

SignerSetMerge(m) ==
    /\ LET out == signerSetMerge(signerSet.state, m)
       IN  signerSet' = [state |-> out.state,
                         call |-> [op |-> "merge", message |-> m.name,
                                   result |-> out.result]]
    /\ SignerSetFrame

NextSignerSet ==
    \/ AddCustody(CustodySigner)
    \/ \E m \in SignerSetMessages : SignerSetMerge(m)

SpecSignerSet == InitHub /\ [][NextSignerSet]_vars

(***************************************************************************)
(* Properties of the engine.                                               *)
(***************************************************************************)
\* The stored messages signed by a custody address or a delegate key.
SignedBy(signer) == { m \in stored : m.signer = signer }

\* The delegate keys with no stored SignerAdd signed by the given custody
\* address.
NotAddedBy(custody) ==
    { k \in Delegates :
        ~ \E a \in stored : isSignerAddMessage(a) /\ a.signer = custody /\ a.key = k }

\* The handlers of the store events have returned, and the jobs they
\* enqueued have run: no handler awaits, no job is queued or running.
JobsHaveRun ==
    /\ handlers = EmptyBag
    /\ revokeSignerQueue = {}
    /\ revokeJob = NoRevokeJob

\* C9: after the Transfer of the fid from custody A to B has been merged
\* and the revoke-by-signer jobs it triggers have run (no handler awaits,
\* no job is queued or running), the custody address is B, no SignerAdd
\* signed by A remains, no key added only by A is an active signer, and no
\* message signed by such a key remains stored.
C9_TransferRevokes ==
    (custodyEvent = TransferEvent /\ JobsHaveRun) =>
        /\ custodyEvent.to = CustodyB
        /\ ~ \E a \in SignedBy(CustodyA) : isSignerAddMessage(a)
        /\ \A k \in NotAddedBy(CustodyB) :
             /\ k \notin getSigners(stored, custodyEvent)
             /\ SignedBy(k) = {}

\* C10: after a SignerRemove for key S signed by the custody address has
\* been merged and the revoke-by-signer job for S it enqueues has run (no
\* handler awaits, no job is queued or running), S is not an active signer
\* and no message signed by S remains stored.
C10_SignerRemoveRevokes ==
    \A r \in stored :
        (/\ isSignerRemoveMessage(r)
         /\ custodyEvent.type # "none" /\ r.signer = custodyEvent.to
         /\ JobsHaveRun) =>
            /\ r.key \notin getSigners(stored, custodyEvent)
            /\ SignedBy(r.key) = {}

\* In the step, the message goes to the check of its body and envelope: it
\* is posted to the validation worker, or validated on the main thread.
EntersValidation(m) ==
    \/ \E id \in 0..(MaxJobId - 1) :
         /\ <<id, m, "mergeMessage">> \in validationWorkerPromiseMap'
         /\ <<id, m, "mergeMessage">> \notin validationWorkerPromiseMap
    \/ \E v \in validated' :
         /\ v.op = "mergeMessage" /\ v.message = m /\ v.id = NoJobId
         /\ v \notin validated

\* In the step, the mergeMessage(m) call returns bad_request.validation_failure
\* and no store has changed.
ReturnsFailure(m) ==
    /\ mergeResult' = [message |-> m, result |-> "bad_request.validation_failure"]
    /\ stored' = stored
    /\ ~EntersValidation(m)

\* In the step, the mergeMessage call goes on from its await.
GoesOn(c) == c \in validating /\ c \notin validating' /\ c.op = "mergeMessage"

\* In the step, getSignerAdd finds no SignerAdd for the signer of the call.
SignerNotFound(c) ==
    /\ ~EntersValidation(c.message)
    /\ mergeResult' = NoMergeResult
    /\ \E d \in validating' :
         d.message = c.message /\ d.at = "getSignerAdd" /\ d.signerResult = "not_found"

\* C11: once the Transfer from A to B is the fid's custody event, a
\* mergeMessage call of a message signed by a key that B has not added
\* finds no SignerAdd for the signer (or had found no custody event before
\* the Transfer), and returns bad_request.validation_failure without the
\* message going to the check of its body or to a store, whether or not the
\* revoke-by-signer job of A has run.
C11_RejectedAfterTransfer ==
    [][\A c \in validating :
          (c.message \in UserMessages /\ GoesOn(c)) =>
              /\ ( /\ c.at = "getIdRegistryEvent"
                   /\ custodyEvent = TransferEvent
                   /\ c.message.signer \in NotAddedBy(CustodyB) )
                 => SignerNotFound(c) \/ ReturnsFailure(c.message)
              /\ (c.at = "getSignerAdd" /\ c.signerResult = "not_found")
                 => ReturnsFailure(c.message)]_vars

\* C11 witness: after the Transfer, while the job of A is still queued and
\* the SignerAdd that A signed for the key is still stored, a message signed
\* by the key was rejected with bad_request.validation_failure.
C11_Witness ==
    /\ custodyEvent = TransferEvent
    /\ CustodyA \in revokeSignerQueue
    /\ mergeResult.message \in UserMessages
    /\ mergeResult.result = "bad_request.validation_failure"
    /\ mergeResult.message \notin stored
    /\ \E a \in SignedBy(CustodyA) :
         isSignerAddMessage(a) /\ a.key = mergeResult.message.signer

\* The custody event that the call read does not authorise the signer of
\* its message: there is none, or the message is a SignerAdd /
\* SignerRemove that its `to` address did not sign.
CustodyRefuses(c) ==
    \/ c.custodyEvent.type = "none"
    \/ /\ isSignerAddMessage(c.message) \/ isSignerRemoveMessage(c.message)
       /\ c.message.signer # c.custodyEvent.to

\* C12: a mergeMessage call is rejected with bad_request.validation_failure,
\* before the check of the body and before any store, when the custody
\* event it read is none or, for a SignerAdd / SignerRemove, has a `to`
\* address other than the signer, and when, for any other message, no
\* SignerAdd for the signer is stored at the lookup; a message goes to the
\* check of its body only from a call that passed these checks, and to a
\* store only after that check answered ok.
C12_SignerAuthorised ==
    [][/\ \A c \in validating :
            GoesOn(c) =>
                /\ (c.at = "getIdRegistryEvent" /\ CustodyRefuses(c))
                   => ReturnsFailure(c.message)
                /\ ( /\ c.at = "getIdRegistryEvent" /\ ~CustodyRefuses(c)
                     /\ c.message \in UserMessages
                     /\ ~ \E a \in stored :
                            /\ isSignerAddMessage(a) /\ a.key = c.message.signer
                            /\ a.signer = custodyEvent.to )
                   => SignerNotFound(c)
                /\ (c.at = "getSignerAdd" /\ c.signerResult = "not_found")
                   => ReturnsFailure(c.message)
       /\ \A m \in EngineMessages :
            EntersValidation(m) =>
                \E c \in validating :
                    /\ c.message = m /\ GoesOn(c)
                    /\ \/ c.at = "getIdRegistryEvent" /\ ~CustodyRefuses(c)
                          /\ m \in SignerMessages
                       \/ c.at = "getSignerAdd" /\ c.signerResult = "ok"
       /\ \A m \in stored' \ stored :
            \E v \in validated :
               v.op = "mergeMessage" /\ v.message = m /\ v.result = "ok"]_vars

\* C12 witness: with messages stored, a SignerAdd signed by an address other
\* than the custody address was rejected with
\* bad_request.validation_failure.
C12_Witness ==
    /\ custodyEvent.type # "none"
    /\ stored # {}
    /\ isSignerAddMessage(mergeResult.message)
    /\ mergeResult.message.signer # custodyEvent.to
    /\ mergeResult.result = "bad_request.validation_failure"
    /\ mergeResult.message \notin stored

\* The validated calls that go to the merge of their store in the step.
Merging ==
    { v \in validated :
        /\ v \notin validated' /\ v.op = "mergeMessage"
        /\ v.result = "ok" /\ typeToSetPostfix(v.message.type) # "none" }

\* C25: the messages of the fid reach their store in the order in which
\* they were submitted (the order of their validation job ids): when a
\* message goes to the merge of its store, no message submitted before it
\* is still waiting for the worker's answer or for its own merge.
C25_CommitInArrivalOrder ==
    [][\A v \in Merging :
          v.id # NoJobId =>
              /\ \A o \in validationWorkerPromiseMap : o[1] > v.id
              /\ \A w \in validated : w.id # NoJobId => w.id >= v.id]_vars

\* The step merges the Transfer of the fid from B back to A.
TransferStep ==
    custodyEvent # TransferBackEvent /\ custodyEvent' = TransferBackEvent

\* The key has a stored SignerAdd under the old custody address B and a
\* stored SignerAdd signed by the new custody address A: both mergeMessage
\* calls returned ok before the Transfer.
AddedByNewCustody(k) ==
    /\ SignerAddBy(CustodyB, k) \in stored
    /\ SignerAddBy(CustodyA, k) \in stored

\* C26 as stated: when a delegate key has a SignerAdd under the old custody
\* address and a SignerAdd for it signed by the new custody address was
\* merged before the Transfer, merging the Transfer keeps the key in the
\* active signer set and drops none of the messages it signed, neither in
\* the call nor in the handler and the jobs that follow from it: the key is
\* active and the messages are stored after the step of the call, and after
\* the Transfer a key that is active and a message of it that is stored
\* stay so.  (Under SpecCustodyReturn nothing is merged after the Transfer
\* and the SignerAdd under the old custody address is stored when the
\* Transfer is merged, so a key that is active after the Transfer has the
\* two SignerAdds of the premise from before it.)
C26_AsStated ==
    [][\A k \in Delegates : \A m \in StorableUserMessages :
          m.signer = k =>
            /\ (TransferStep /\ AddedByNewCustody(k) /\ m \in stored) =>
                  (k \in getSigners(stored', custodyEvent') /\ m \in stored')
            /\ ( /\ custodyEvent = TransferBackEvent
                 /\ k \in getSigners(stored, custodyEvent) /\ m \in stored ) =>
                  (k \in getSigners(stored', custodyEvent') /\ m \in stored')]_vars

\* The engine of SpecEngine is in a state that SpecCustodyReturn starts
\* from: the fid went from A to B, the job of A is in the queue, and the
\* SignerAdds of the key signed by A and by B and a message signed by the
\* key are stored.
CustodyReturnStart ==
    /\ custodyEvent = TransferEvent
    /\ revokeSignerQueue = {CustodyA}
    /\ \E signed \in (SUBSET StorableUserMessages) \ {{}} :
         stored = { SignerAddBy(c, k) : c \in Custodies, k \in Delegates }
                      \cup signed
    /\ \E k \in Delegates :
         mergeResult = [message |-> SignerAddBy(CustodyB, k), result |-> "ok"]
    /\ validating = {} /\ validated = {} /\ validationWorkerPromiseMap = {}
    /\ handlers = EmptyBag /\ revokeJob = NoRevokeJob /\ pruning = 0

(***************************************************************************)
(* Properties of the engine over several fids.                             *)
(***************************************************************************)
\* The messages that leave the stores in the step, and the jobs it enqueues.
Removed == hub.messages \ hub'.messages
Enqueued == hub'.jobs \ hub.jobs

\* The database after the step is the database before it.
SameDatabase ==
    /\ hub'.custody = hub.custody
    /\ hub'.nameEvent = hub.nameEvent
    /\ hub'.messages = hub.messages
    /\ hub'.jobs = hub.jobs

\* The handlers that go on or return in the step.
GoingOn == BagToSet(hub.handlers (-) hub'.handlers)

\* The job worker takes the next key of the iterator in the step.
JobKey ==
    /\ hub.job # NoHubJob /\ hub.job.key = {} /\ hub.job.loaded = {}
    /\ hub'.job # hub.job /\ hub'.job # NoHubJob

\* The job worker loads the message of a turn of the loop in the step, or
\* fails to.
JobLoad == hub.job # NoHubJob /\ hub.job.key # {} /\ hub'.job # hub.job

\* The job worker ends a turn of the loop in the step, with the revoke of
\* the message it loaded.
JobTurn == hub.job # NoHubJob /\ hub.job.loaded # {} /\ hub'.job # hub.job

\* The messages that the step prunes or revokes.
PrunedOrRevoked ==
    IF hub'.prunes # hub.prunes \/ (hub' # hub /\ hub'.call.op = "pruneMessages")
    THEN Removed
    ELSE IF hub' # hub /\ hub'.call.op \in {"validateOrRevokeMessage",
                                            "handleMergeIdRegistryEvent",
                                            "handleMergeNameRegistryEvent",
                                            "revokeMessageByKey",
                                            "revokeMessagesBySigner"}
    THEN hub'.call.revoked
    ELSE {}

\* The jobs of the keys that the SignerAdds among the messages added.
JobsOfSignerAdds(ms) ==
    { <<m.fid, m.key>> : m \in { x \in ms : isSignerAddMessage(x) } }

\* The jobs that the handlers among hs wait to enqueue.
JobsToEnqueue(hs) ==
    { <<h.fid, h.signer>> : h \in { x \in hs : x.at = "enqueueJob" } }

\* The job that the merge of an id-registry event enqueues for its from
\* address.
JobOfTransfer ==
    IF /\ hub' # hub
       /\ hub'.call.op = "mergeIdRegistryEvent"
       /\ hub'.call.result = "ok"
       /\ hub'.call.arg.from # NoAddress
    THEN {<<hub'.call.arg.fid, hub'.call.arg.from>>}
    ELSE {}

\* C27: a step that prunes or revokes a SignerAdd leaves a handler that
\* enqueues the job of (fid, the key it added), and the handlers that a
\* step starts are those of the SignerAdds it pruned or revoked (next to
\* that of the from address of a transfer), so that removing messages of
\* other types enqueues none; the job is in the queue when the handler has
\* gone on, and jobs come from handlers only; when the database does not
\* fail and the handlers and the worker run, a handler that waits to
\* enqueue the job of a key leads to a state without any stored message of
\* the fid signed by the key.
C27_SignerAddRemovalRevokes ==
    /\ [][/\ JobsOfSignerAdds(PrunedOrRevoked)
                \subseteq JobsToEnqueue(BagToSet(hub'.handlers))
          /\ JobsToEnqueue(BagToSet(hub'.handlers (-) hub.handlers))
                \subseteq JobsOfSignerAdds(PrunedOrRevoked) \cup JobOfTransfer
          /\ JobsToEnqueue(GoingOn) \subseteq hub'.jobs
          /\ Enqueued \subseteq JobsToEnqueue(GoingOn)]_vars
    /\ \A job \in HubFids \X Delegates :
         (job \in JobsToEnqueue(BagToSet(hub.handlers)))
            ~> (getMessagesBySignerIterator(HubDb, job[1], job[2]) = {})

\* The calls of mergeMessage that go on or return in the step.
MergeMessageGoingOn == { c \in hub.calls \ hub'.calls : c.op = "mergeMessage" }

\* C28: a step of a call of mergeMessage up to the return of
\* validateMessage - the call, each read of validateMessage, the return of
\* bad_request.validation_failure - leaves the custody events, the
\* name-registry event, the stored messages, the job queue and the handlers
\* as they are; no call waits once its validation has failed or its valid
\* message has a type without a store, and a call that returns without a
\* valid message of a type with a store returns
\* bad_request.validation_failure; a store merges a message only in a step
\* of a call for the message whose validateMessage returned ok.
C28_RejectedMergeHasNoEffect ==
    [][/\ (\E n \in hub'.calls \ hub.calls : n.op = "mergeMessage")
             => SameDatabase /\ hub'.handlers = hub.handlers
       /\ (hub' # hub /\ hub'.call.op = "mergeMessage"
              /\ hub'.call.result = "bad_request.validation_failure")
             => SameDatabase /\ hub'.handlers = hub.handlers
       /\ \A n \in hub'.calls : n.op = "mergeMessage" => ~ returnsNow(n)
       /\ \A c \in MergeMessageGoingOn :
            \/ \E n \in hub'.calls : n.message = c.message /\ n.at # c.at
            \/ /\ hub'.call.op = "mergeMessage" /\ hub'.call.arg = c.message
               /\ \/ hub'.call.result = "bad_request.validation_failure"
                  \/ /\ validateMessage(c) = "ok"
                     /\ typeToSetPostfix(c.message.type) # "none"
       /\ \A m \in hub'.messages \ hub.messages :
            \E c \in MergeMessageGoingOn :
               /\ c.message = m
               /\ validateMessage(c) = "ok"
               /\ typeToSetPostfix(m.type) # "none"]_vars

\* C28 witness: with messages stored and a job in the queue, mergeMessage
\* has returned bad_request.validation_failure for a message of a type with
\* a store that is not stored.
C28_Witness ==
    /\ hub.call.op = "mergeMessage"
    /\ hub.call.result = "bad_request.validation_failure"
    /\ typeToSetPostfix(hub.call.arg.type) # "none"
    /\ hub.call.arg.network = HubNetwork
    /\ hub.call.arg \notin hub.messages
    /\ hub.messages # {}
    /\ hub.jobs # {}

\* The step is a call of mergeNameRegistryEvent.
MergeNameRegistryEventStep ==
    hub' # hub /\ hub'.call.op = "mergeNameRegistryEvent"

\* The call of mergeNameRegistryEvent of the step removes no message; when
\* it merges a transfer with a from address, its handler goes on to look
\* for the fid whose custody address is the from address, and when it
\* merges a renewal or a transfer without a from address, or merges
\* nothing, no handler starts.
NameEventStartsHandler ==
    LET event == hub'.call.arg
        transfer == /\ hub'.call.result = "ok" /\ event.type = "Transfer"
                    /\ event.from # NoAddress
    IN  /\ hub'.messages = hub.messages
        /\ transfer =>
             hub'.handlers = hub.handlers (+) SetToBag({
                HubHandler("handleMergeNameRegistryEvent", 0, event.from,
                           "getIdRegistryEventByCustodyAddress",
                           NoHubMessage)})
        /\ ~ transfer => hub'.handlers = hub.handlers

\* The step of the handler h of a name-registry event up to its revoke: it
\* returns without a revoke when no fid has the from address as custody
\* address or the fid has no UserDataAdd of type FNAME, else it goes on to
\* revoke that message; nothing but that message leaves the stores.
NameHandlerFindsFname(h) ==
    LET fids == getIdRegistryEventByCustodyAddress(HubDb, h.signer)
        fnames == getUserDataAdd(HubDb, h.fid, FNAME)
    IN  /\ hub'.messages \subseteq hub.messages
        /\ h.at = "getIdRegistryEventByCustodyAddress" =>
             /\ Removed = {}
             /\ fids = {} => hub'.handlers = hub.handlers (-) SetToBag({h})
             /\ \A f \in fids :
                  BagIn([h EXCEPT !.at = "getUserDataAdd", !.fid = f],
                        hub'.handlers)
        /\ h.at = "getUserDataAdd" =>
             /\ Removed = {}
             /\ fnames = {} => hub'.handlers = hub.handlers (-) SetToBag({h})
             /\ \A u \in fnames :
                  BagIn([h EXCEPT !.at = "revoke", !.message = u],
                        hub'.handlers)
        /\ h.at = "revoke" =>
             /\ h.message.fid = h.fid
             /\ h.message.type = "UserDataAdd" /\ h.message.key = FNAME
             /\ Removed \subseteq {h.message}

\* The handlers of name-registry events that go on or return in the step.
NameHandlersGoingOn ==
    { h \in GoingOn : h.handler = "handleMergeNameRegistryEvent" }

\* C29 as stated: after the merge of a transfer of the name with a from
\* address, when a fid has the from address as custody address and holds a
\* UserDataAdd of type FNAME, the handler's revoke of that message removes
\* it from the store; a renewal, a transfer without a from address or a
\* from address of no fid revokes nothing, and no other message leaves the
\* stores.
C29_AsStated ==
    [][/\ MergeNameRegistryEventStep => NameEventStartsHandler
       /\ \A h \in NameHandlersGoingOn :
            /\ NameHandlerFindsFname(h)
            /\ h.at = "revoke" => h.message \notin hub'.messages]_vars

\* C29: after the merge of a transfer of the name with a from address, when
\* a fid has the from address as custody address and holds a UserDataAdd of
\* type FNAME, the handler calls the revoke of that message: the message
\* leaves the store, or the user data store returns an error, every message
\* stays stored and the error is logged; in both cases the handler returns.
\* A renewal, a transfer without a from address or a from address of no fid
\* revokes nothing, and no other message leaves the stores.
C29_NameTransferRevokesFname ==
    [][/\ MergeNameRegistryEventStep => NameEventStartsHandler
       /\ \A h \in NameHandlersGoingOn :
            /\ NameHandlerFindsFname(h)
            /\ h.at = "revoke" =>
                 /\ hub'.handlers = hub.handlers (-) SetToBag({h})
                 /\ \/ /\ h.message \notin hub'.messages
                       /\ hub'.call = HubReturn(h.handler, h.fid, "ok",
                                                {h.message}, {})
                    \/ /\ hub'.messages = hub.messages
                       /\ hub'.call = HubReturn(h.handler, h.fid,
                                                "unavailable.storage_failure",
                                                {}, {h.message})]_vars

\* C29 witness: after the merge of the transfer of the fname from custody
\* address A, the handler's revoke of the fname message of fid 1, whose
\* custody address is A, has failed, the failure is logged and the message
\* is stored; a SignerAdd and a cast of fid 1 and the SignerAdd of fid 2
\* are stored.
C29_Witness ==
    /\ hub.call.op = "handleMergeNameRegistryEvent"
    /\ hub.call.result = "unavailable.storage_failure"
    /\ hub.nameEvent.type = "Transfer" /\ hub.nameEvent.from = CustodyA
    /\ hub.custody[1].type # "none" /\ hub.custody[1].to = CustodyA
    /\ \E u \in hub.call.failed :
         u.fid = 1 /\ u.type = "UserDataAdd" /\ u.key = FNAME /\ u \in hub.messages
    /\ \E a \in hub.messages : a.fid = 1 /\ isSignerAddMessage(a)
    /\ \E c \in hub.messages : c.fid = 1 /\ c.type = "CastAdd"
    /\ \E a \in hub.messages : a.fid = 2 /\ isSignerAddMessage(a)

\* The job worker takes a job off the queue in the step.
JobStart == hub.job = NoHubJob /\ hub'.jobs # hub.jobs /\ hub'.jobs \subseteq hub.jobs

\* The call of revokeMessagesBySigner returns in the step.
JobEnd == hub.job # NoHubJob /\ hub'.job = NoHubJob

\* The call for the job opens the iterator over the messages of the fid
\* under the signer and does not return in the step.
JobOpens(job) ==
    /\ hub'.messages = hub.messages
    /\ hub'.job = [fid |-> job[1], signer |-> job[2],
                   iterator |-> getMessagesBySignerIterator(HubDb, job[1], job[2]),
                   key |-> {}, loaded |-> {}, revokedCount |-> 0]
    /\ hub'.call = NoHubCall

\* The call for the job returns the error of bytesToHexString(signer) at
\* once: no iterator is opened and no message leaves the stores.
JobRefused(job) ==
    /\ hub'.messages = hub.messages
    /\ hub'.job = NoHubJob
    /\ hub'.call = HubReturn("revokeMessagesBySigner", job, "unknown", {}, {})

\* The turn of the loop for m ends in the step: the iteration goes on with
\* all the other messages, the revoke counted if there was one, and the
\* call does not return in the step.
TurnEnds(m, revoked) ==
    /\ m.fid = hub.job.fid /\ m.signer = hub.job.signer
    /\ hub'.job = [hub.job EXCEPT !.iterator = @ \ {m}, !.key = {}, !.loaded = {},
                                  !.revokedCount = @ + (IF revoked THEN 1 ELSE 0)]
    /\ hub'.call = HubReturn("revokeMessageByKey", m, hub'.call.result,
                             IF revoked THEN {m} ELSE {},
                             IF revoked THEN {} ELSE {m})
    /\ revoked <=> hub'.call.result = "ok"

\* Each turn of the loop takes the key of one of the messages of the
\* iterator, which either is revoked, counted and gone after the turn, or
\* fails - when it is loaded or when it is revoked - and is logged, and in
\* both cases the iteration goes on with all the others; no other message
\* leaves the stores and none is stored.
JobTurns ==
    /\ JobKey =>
         /\ hub'.messages = hub.messages
         /\ \E m \in hub.job.iterator : hub'.job = [hub.job EXCEPT !.key = {m}]
         /\ hub'.call = NoHubCall
    /\ JobLoad =>
         /\ hub'.messages = hub.messages
         /\ \E m \in hub.job.key :
              /\ m \in hub.job.iterator
              /\ \/ /\ m \in hub.messages
                    /\ hub'.job = [hub.job EXCEPT !.key = {}, !.loaded = {m}]
                    /\ hub'.call = NoHubCall
                 \/ TurnEnds(m, FALSE)
    /\ JobTurn =>
         \E m \in hub.job.loaded :
            /\ m \in hub.job.iterator
            /\ hub'.messages \subseteq hub.messages
            /\ \/ /\ m \notin hub'.messages
                  /\ Removed \subseteq {m}
                  /\ TurnEnds(m, TRUE)
               \/ /\ hub'.messages = hub.messages
                  /\ TurnEnds(m, FALSE)

\* The call returns between two turns of the loop, with the result, and no
\* message leaves the stores in the step.
JobReturns(result) ==
    /\ hub.job.key = {} /\ hub.job.loaded = {}
    /\ hub'.messages = hub.messages
    /\ hub'.call = HubReturn("revokeMessagesBySigner",
                             <<hub.job.fid, hub.job.signer>>, result, {}, {})

\* C30 as stated: every call of revokeMessagesBySigner(fid, signer) opens
\* the iterator over the messages of the fid under the signer and attempts
\* a revoke for each: a failure to load or to revoke one is logged and the
\* iteration goes on, each message revoked without error is gone, no other
\* message leaves the stores, and the call returns ok, at the end of the
\* iterator and not before.
C30_AsStated ==
    [][/\ JobStart => \E job \in hub.jobs \ hub'.jobs : JobOpens(job)
       /\ JobTurns
       /\ JobEnd => (hub.job.iterator = {} /\ JobReturns("ok"))]_vars

\* C30: a call of revokeMessagesBySigner(fid, signer) whose signer
\* bytesToHexString cannot write as a hex string returns that error at once,
\* without opening the iterator and without a revoke.  Every other call
\* opens the iterator over the messages of the fid under the signer and
\* attempts a revoke for each: a failure to load or to revoke one is logged
\* and the iteration goes on, each message revoked without error is gone,
\* and no other message leaves the stores.  The call returns ok in a step
\* after the last turn, unless the iterator fails when it is asked for a
\* key: then the call is rejected at that point, between two turns.
C30_RevokeBySignerContinues ==
    [][/\ JobStart =>
            \E job \in hub.jobs \ hub'.jobs : JobOpens(job) \/ JobRefused(job)
       /\ JobTurns
       /\ JobEnd => \/ hub.job.iterator = {} /\ JobReturns("ok")
                    \/ JobReturns("rejected")]_vars

\* C30 witness: in a call of revokeMessagesBySigner, the revoke of a message
\* under the signer has just failed after another was revoked; the one that
\* failed is stored, the iterator has a message left, and a message of the
\* fid under another signer and a message of another fid are stored.
C30_Witness ==
    /\ hub.job # NoHubJob
    /\ hub.call.op = "revokeMessageByKey"
    /\ hub.call.result = "unavailable.storage_failure"
    /\ hub.call.arg \in hub.messages
    /\ hub.job.revokedCount > 0
    /\ hub.job.iterator # {}
    /\ \E m \in hub.messages : m.fid = hub.job.fid /\ m.signer # hub.job.signer
    /\ \E m \in hub.messages : m.fid # hub.job.fid

(***************************************************************************)
(* Properties of Engine.start, Engine.stop and the validation worker.      *)
(***************************************************************************)
\* The step is the given kind of call.
LifecycleStep(op) == lifecycle' # lifecycle /\ lifecycle'.call.op = op

\* The engine apart from the record of the last call.
LifecycleState(e) ==
    [listeners |-> e.listeners, validationWorker |-> e.validationWorker,
     revokeSignerWorker |-> e.revokeSignerWorker,
     validationWorkerJobId |-> e.validationWorkerJobId,
     validationWorkerPromiseMap |-> e.validationWorkerPromiseMap,
     resolved |-> e.resolved, enqueueing |-> e.enqueueing, queued |-> e.queued]

\* C31: a request posted to the worker takes an id that no pending request
\* has; a message of the worker with the id of a pending request resolves
\* that request and no other and deletes its entry, and no request is
\* resolved twice; a message with an id without entry resolves nothing and
\* leaves the engine as it was.
C31_JobIdsMatchRequests ==
    /\ [][/\ LifecycleStep("postMessage") =>
                ( /\ lifecycle'.call.id \notin lifecycle.validationWorkerPromiseMap
                  /\ lifecycle'.validationWorkerPromiseMap =
                        lifecycle.validationWorkerPromiseMap \cup {lifecycle'.call.id} )
          /\ LifecycleStep("message") =>
                ( /\ lifecycle'.call.resolved = {lifecycle'.call.id}
                  /\ lifecycle'.resolved[lifecycle'.call.id] = 1
                  /\ lifecycle'.validationWorkerPromiseMap =
                        lifecycle.validationWorkerPromiseMap \ {lifecycle'.call.id} )
          /\ LifecycleStep("stray") =>
                ( /\ lifecycle'.call.resolved = {}
                  /\ LifecycleState(lifecycle') = LifecycleState(lifecycle) )]_vars
    /\ [](\A i \in JobIds : lifecycle.resolved[i] <= 1)

\* C31 witness: a message of the worker came for the id of a request that
\* was resolved before, while another request is pending.
C31_Witness ==
    /\ lifecycle.call.op = "stray"
    /\ lifecycle.resolved[lifecycle.call.id] = 1
    /\ lifecycle.validationWorkerPromiseMap # {}

\* C32: every validation request posted to the worker is resolved in the
\* end, so that its mergeMessage call returns, whether or not stop
\* terminates the worker while the request is pending.
C32_EveryRequestResolved ==
    \A id \in JobIds :
        (id \in lifecycle.validationWorkerPromiseMap)
            ~> (id \notin lifecycle.validationWorkerPromiseMap)

\* C33: when stop has completed, no handler is registered on the store
\* events, there is no validation worker, and the job worker is not
\* running; and as long as start is not called, no queued job is run.
C33_QuiescentAfterStop ==
    /\ [](lifecycle.call.op = "stop" =>
            /\ \A ev \in EngineEvents : lifecycle.listeners[ev] = 0
            /\ lifecycle.validationWorker = "undefined"
            /\ lifecycle.revokeSignerWorker # "started")
    /\ [][lifecycle.call.op = "stop" => ~ LifecycleStep("job")]_vars

(***************************************************************************)
(* Properties of RetryProvider.                                            *)
(***************************************************************************)
\* The step is a call of the underlying method for a request of the method.
UnderlyingCall(method) ==
    provider.method = method /\ provider'.calls = provider.calls + 1

\* The request of the method is over.
Settled(method) ==
    provider.method = method /\ provider.status \in {"returned", "thrown"}

\* C34: for a request of _perform the underlying _perform is called at most
\* RETRY_LIMIT times; a result is returned at once; an error with another
\* status code than 429 is thrown again at once; an error with status code
\* 429 is thrown again after the third call and leads to another attempt
\* before; and once the request has returned or thrown, the underlying
\* method is not called for it again.
C34_PerformRetriesOn429 ==
    /\ [][/\ UnderlyingCall("_perform") =>
                ( /\ provider'.calls <= RETRY_LIMIT
                  /\ provider'.last = "ok" => provider'.status = "returned"
                  /\ provider'.last \notin {"ok", TooManyRequests} =>
                        provider'.status = "thrown"
                  /\ provider'.last = TooManyRequests =>
                        provider'.status =
                           IF provider'.calls = RETRY_LIMIT THEN "thrown" ELSE "waiting" )
          /\ (Settled("_perform") /\ provider' # provider) => provider'.calls = 0]_vars
    /\ [](provider.method = "_perform" =>
            /\ provider.calls <= RETRY_LIMIT
            /\ \A i \in 1..(Len(provider.errors) - 1) :
                  provider.errors[i] = TooManyRequests)

\* C34 witness: a request of _perform has thrown after three calls that all
\* failed with status code 429.
C34_Witness ==
    /\ provider.method = "_perform"
    /\ provider.status = "thrown"
    /\ provider.calls = RETRY_LIMIT
    /\ provider.errors = <<TooManyRequests, TooManyRequests, TooManyRequests>>

\* The delay before the attempt after the i-th failure: once the base
\* delay after the first, four times after the second.
ExpectedWait(i) ==
    (IF provider.altDelay # 0 THEN provider.altDelay ELSE ETHERS_CACHE_DELAY_MS)
        * (IF i = 1 THEN 1 ELSE 4)

\* C35: a request of getLogs or getBlockNumber comes to an end; when it has,
\* the underlying method was called between one and three times, once more
\* than it failed before, whatever the errors were; the waits were the base
\* delay and four times the base delay; a returned request ended with a
\* success, a thrown one with the third failure.
C35_LogsAndBlockNumberRetry ==
    /\ [](\A method \in {"getLogs", "getBlockNumber"} :
            Settled(method) =>
              /\ provider.calls \in 1..RETRY_LIMIT
              /\ provider.waits =
                    [i \in 1..(provider.calls - 1) |-> ExpectedWait(i)]
              /\ provider.status = "returned" =>
                    ( /\ provider.last = "ok"
                      /\ Len(provider.errors) = provider.calls - 1 )
              /\ provider.status = "thrown" =>
                    ( /\ provider.calls = RETRY_LIMIT
                      /\ Len(provider.errors) = RETRY_LIMIT
                      /\ provider.last = provider.errors[RETRY_LIMIT] ))
    /\ \A method \in {"getLogs", "getBlockNumber"} :
         (provider.method = method /\ provider.status = "running")
            ~> Settled(method)

\* C35 witness: a request of getLogs has thrown after three failures, not
\* all of them with status code 429, and after waits of 251 and 1004 ms.
C35_Witness ==
    /\ provider.method = "getLogs"
    /\ provider.status = "thrown"
    /\ provider.errors = <<ServerError, TooManyRequests, NoStatusCode>>
    /\ provider.waits = <<ETHERS_CACHE_DELAY_MS, 4 * ETHERS_CACHE_DELAY_MS>>

(***************************************************************************)
(* Properties of SignerSet.                                                *)
(***************************************************************************)
SignerSetMergeStep(m) ==
    signerSet'.call.op = "merge" /\ signerSet'.call.message = m.name

\* The sets reached from the given ones by any number of merges.
RECURSIVE mergedFrom(_)
mergedFrom(sets) ==
    LET more == sets \cup
                { signerSetMerge(s, m).state : s \in sets, m \in SignerSetMessages }
    IN  IF more = sets THEN sets ELSE mergedFrom(more)

\* Every set that some order of merges reaches, a rejected merge retried
\* any number of times.
ReachableSignerSets ==
    mergedFrom({EmptySignerSet, addCustody(EmptySignerSet, CustodySigner)})

\* C36: the state of the set depends only on the messages it has accepted,
\* not on the order of the merges: every set that another order of merges
\* reaches with the same accepted messages is the same set; and merging a
\* message that is already merged succeeds and changes nothing.
C36_OrderIndependent ==
    [][ /\ \A other \in ReachableSignerSets :
              (/\ other.messages = signerSet'.state.messages
               /\ other.custodySigners = signerSet'.state.custodySigners)
                  => other = signerSet'.state
        /\ \A m \in signerSet.state.messages :
              SignerSetMergeStep(m) =>
                  (/\ signerSet'.call.result = "ok"
                   /\ signerSet'.state = signerSet.state)
      ]_vars

\* The converged state of the cycle tests, reached by an order in which the
\* merge of addAToCHigherHash is retried: both edges of the would-be cycle
\* are merged and one of them is in edgeRemoves.
C36_Witness ==
    /\ signerSet.call.op = "merge"
    /\ signerSet.call.message = "addAToCHigherHash"
    /\ signerSet.call.result = "ok"
    /\ { m.name : m \in signerSet.state.messages }
          = {"addA", "addCToA", "addCHigherHash", "addAToCHigherHash"}
    /\ { e.hash : e \in signerSet.state.edgeAdds } = {5, 6}
    /\ { e.hash : e \in signerSet.state.edgeRemoves } = {1, 3}

\* The edge a SignerAdd stands for.
edgeOf(m) == [parent |-> m.signer, child |-> m.childKey, hash |-> m.hash]

\* The edge of a SignerAdd is in an edge map: the map has its key (parent,
\* child), under its hash unless another stored SignerAdd has the same key.
hasEdgeOf(edges, m, messages) ==
    /\ edgeAt(edges, m.signer, m.childKey) # {}
    /\ (\A o \in messages \ {m} :
            o.type = "SignerAdd" => <<o.signer, o.childKey>> # <<m.signer, m.childKey>>)
          => edgeOf(m) \in edges

\* C37: an accepted SignerRemove of a key moves the key and the keys below
\* it in edgeAdds from vertexAdds to vertexRemoves and their edges from
\* edgeAdds to edgeRemoves; a key in vertexRemoves stays there and out of
\* vertexAdds; a SignerAdd whose parent is in vertexRemoves is accepted, its
\* child is in vertexRemoves and its edge in edgeRemoves (the edge maps are
\* keyed by parent and child and hold one hash per key).
C37_RemoveMovesSubtree ==
    [][ /\ \A m \in SignerSetMessages \ signerSet.state.messages :
              (/\ m.type = "SignerRemove"
               /\ SignerSetMergeStep(m)
               /\ signerSet'.call.result = "ok") =>
                  LET keys == reachable(signerSet.state.edgeAdds, {m.childKey})
                      edges == { e \in signerSet.state.edgeAdds : e.child \in keys }
                  IN  (/\ keys \subseteq signerSet'.state.vertexRemoves
                       /\ keys \cap signerSet'.state.vertexAdds = {}
                       /\ edges \subseteq signerSet'.state.edgeRemoves
                       /\ edges \cap signerSet'.state.edgeAdds = {})
        /\ signerSet.state.vertexRemoves \subseteq signerSet'.state.vertexRemoves
        /\ signerSet.state.vertexRemoves \cap signerSet'.state.vertexAdds = {}
        /\ \A m \in SignerSetMessages \ signerSet.state.messages :
              (/\ m.type = "SignerAdd"
               /\ SignerSetMergeStep(m)
               /\ m.signer \in signerSet.state.vertexRemoves) =>
                  (/\ signerSet'.call.result = "ok"
                   /\ m \in signerSet'.state.messages
                   /\ m.childKey \in signerSet'.state.vertexRemoves
                   /\ m.childKey \notin signerSet'.state.vertexAdds
                   /\ hasEdgeOf(signerSet'.state.edgeRemoves, m,
                                signerSet'.state.messages)
                   /\ edgeAt(signerSet'.state.edgeAdds, m.signer, m.childKey) = {})
      ]_vars

\* The key c is added below the removed key a while it is in vertexAdds as
\* a child of b: it moves to vertexRemoves with both its edges.
C37_Witness ==
    /\ signerSet.call.op = "merge"
    /\ signerSet.call.message = "addCToA"
    /\ signerSet.call.result = "ok"
    /\ { m.name : m \in signerSet.state.messages }
          = {"addB", "addCToB", "addA", "remA", "addCToA"}
    /\ signerSet.state.vertexAdds = {"b"}
    /\ signerSet.state.vertexRemoves = {"a", "c"}
    /\ { e.hash : e \in signerSet.state.edgeRemoves } = {1, 3, 4}

\* A step that merges a message the set has not stored, and rejects it.
SignerSetRejects(m) ==
    /\ m \notin signerSet.state.messages
    /\ SignerSetMergeStep(m)
    /\ signerSet'.call.result = "err"

\* C38: a rejected merge leaves the set as it was; a SignerAdd whose parent
\* is no custody signer and no known key, a SignerRemove of a key never
\* added, a SignerRemove whose signer has no edge to the key, and a SignerAdd
\* whose edge would enter edgeAdds and close a cycle there are rejected.
C38_RejectedMergeChangesNothing ==
    [][ \A m \in SignerSetMessages \ signerSet.state.messages :
          LET s == signerSet.state
              known == s.vertexAdds \cup s.vertexRemoves
          IN  /\ SignerSetRejects(m) => signerSet'.state = s
              /\ (/\ SignerSetMergeStep(m)
                  /\ m.type = "SignerAdd"
                  /\ m.signer \notin s.custodySigners \cup known)
                     => SignerSetRejects(m)
              /\ (/\ SignerSetMergeStep(m)
                  /\ m.type = "SignerRemove"
                  /\ m.childKey \notin known)
                     => SignerSetRejects(m)
              /\ (/\ SignerSetMergeStep(m)
                  /\ m.type = "SignerRemove"
                  /\ \A e \in s.edgeAdds \cup s.edgeRemoves :
                        <<e.parent, e.child>> # <<m.signer, m.childKey>>)
                     => SignerSetRejects(m)
              /\ (/\ SignerSetMergeStep(m)
                  /\ m.type = "SignerAdd"
                  /\ m.signer \in s.vertexAdds
                  /\ m.childKey \in s.vertexAdds
                  /\ \A e \in s.edgeAdds : e.child = m.childKey => e.hash < m.hash
                  /\ m.signer \in reachable(s.edgeAdds, {m.childKey}))
                     => SignerSetRejects(m)
      ]_vars

\* The merge of addAToCHigherHash after addA and addCToA is rejected as a
\* cycle and the set holds the two messages only.
C38_Witness ==
    /\ signerSet.call.op = "merge"
    /\ signerSet.call.message = "addAToCHigherHash"
    /\ signerSet.call.result = "err"
    /\ { m.name : m \in signerSet.state.messages } = {"addA", "addCToA"}
    /\ signerSet.state.vertexAdds = {"a", "c"}
    /\ { e.hash : e \in signerSet.state.edgeAdds } = {1, 3}
    /\ signerSet.state.edgeRemoves = {}

\* C39: a SignerAdd for a key that is in vertexAdds, signed by a key that is
\* not removed, succeeds unless it is rejected as a cycle, and is stored; the
\* key then has exactly one edge in edgeAdds and it is the edge of higher
\* hash, the former one or the new one; with a different parent the losing
\* edge is in edgeRemoves; with the same parent the losing hash is in
\* neither edge map.
C39_HigherHashKept ==
    [][ \A m \in SignerSetMessages \ signerSet.state.messages :
          LET s == signerSet.state
              t == signerSet'.state
              former == CHOOSE e \in s.edgeAdds : e.child = m.childKey
              winner == IF former.hash > m.hash THEN former ELSE edgeOf(m)
              loser == IF former.hash > m.hash THEN edgeOf(m) ELSE former
          IN  (/\ SignerSetMergeStep(m)
               /\ m.type = "SignerAdd"
               /\ m.childKey \in s.vertexAdds
               /\ m.signer \in s.custodySigners \cup s.vertexAdds
               /\ (former.hash > m.hash
                     \/ m.signer \notin reachable(s.edgeAdds, {m.childKey}))) =>
                  (/\ signerSet'.call.result = "ok"
                   /\ m \in t.messages
                   /\ m.childKey \in t.vertexAdds
                   /\ { e \in t.edgeAdds : e.child = m.childKey } = {winner}
                   /\ IF former.parent # m.signer
                      THEN /\ loser \in t.edgeRemoves
                           /\ loser \notin t.edgeAdds
                      ELSE /\ t.edgeRemoves = s.edgeRemoves
                           /\ \A e \in t.edgeAdds \cup t.edgeRemoves :
                                 <<e.parent, e.child>> = <<m.signer, m.childKey>>
                                    => e.hash # loser.hash)
      ]_vars

\* The key c, held by a and then by b through the higher hash, is added
\* once more by a with a still higher hash: a holds it again.
C39_Witness ==
    /\ signerSet.call.op = "merge"
    /\ signerSet.call.message = "addCToADuplicate"
    /\ signerSet.call.result = "ok"
    /\ { m.name : m \in signerSet.state.messages }
          = {"addA", "addB", "addCToA", "addCToB", "addCToADuplicate"}
    /\ { e.hash : e \in signerSet.state.edgeAdds } = {1, 2, 8}
    /\ { e.hash : e \in signerSet.state.edgeRemoves } = {4}

\* C39 as stated: every SignerAdd for a key that is in vertexAdds, signed by
\* a custody signer or a known key, succeeds and leaves the key with exactly
\* one edge in edgeAdds, the one of higher hash.
C39_EveryAddAgainSucceeds ==
    [][ \A m \in SignerSetMessages \ signerSet.state.messages :
          LET s == signerSet.state
              t == signerSet'.state
              former == CHOOSE e \in s.edgeAdds : e.child = m.childKey
              winner == IF former.hash > m.hash THEN former ELSE edgeOf(m)
          IN  (/\ SignerSetMergeStep(m)
               /\ m.type = "SignerAdd"
               /\ m.childKey \in s.vertexAdds
               /\ m.signer \in s.custodySigners \cup s.vertexAdds \cup s.vertexRemoves) =>
                  (/\ signerSet'.call.result = "ok"
                   /\ m \in t.messages
                   /\ { e \in t.edgeAdds : e.child = m.childKey } = {winner})
      ]_vars

\* A set of edges has a cycle: some key is below itself.
hasCycle(edges) ==
    \E e \in edges : e.parent \in reachable(edges, {e.child})

\* C40: the edges of edgeAdds form no cycle, and no key is in vertexAdds
\* and in vertexRemoves.
C40_EdgeAddsAcyclic ==
    /\ ~hasCycle(signerSet.state.edgeAdds)
    /\ signerSet.state.vertexAdds \cap signerSet.state.vertexRemoves = {}

\* The set of the test of a cycle in edgeRemoves (a below c in edgeAdds, c
\* below a in edgeRemoves) after the custody signer has added and removed
\* c: the edges from a to c and from c to a are both in edgeRemoves.
C40_Witness ==
    /\ { m.name : m \in signerSet.state.messages }
          = {"addA", "addB", "addCToA", "addCToB", "addAToCHigherHash",
             "addCHigherHash", "remC"}
    /\ signerSet.state.vertexAdds = {"b"}
    /\ signerSet.state.vertexRemoves = {"a", "c"}
    /\ { e.hash : e \in signerSet.state.edgeAdds } = {2}
    /\ hasCycle(signerSet.state.edgeRemoves)

====
